---- MODULE Spec2Model ----
(***************************************************************************)
(* Model of the Mobkoi analytics adapter (modules/mobkoiAnalyticsAdapter.js,*)
(* the later of the two versions held by the file, lines 653-1671): the    *)
(* LocalContext, its BidContexts, the track() event handlers and the two   *)
(* network primitives (loss beacon GET, debug report POST).                *)
(*                                                                         *)
(* A JavaScript object is a TLA+ function from its own property names to   *)
(* their values.  A property has one type throughout: id, ortbId, impid,   *)
(* requestId, bidId, lurl, bidderCode, ... hold strings ("" never occurs   *)
(* as a stored value: a missing string reads as ""), price, cpm and        *)
(* timestamp hold numbers (a missing number reads as 0), the properties of *)
(* NestedObjectFields hold objects.                                        *)
(***************************************************************************)
EXTENDS Integers, Sequences, FiniteSets, TLC

VARIABLES
  enabled,        \* the base adapter is enabled: events reach track()
  initOptions,    \* module-level initOptions (config.options)
  localContext,   \* mobkoiAnalytics.localContext, a LocalContext
  gets,           \* loss beacon GETs issued by sendGetRequest, in order
  posts,          \* debug report POSTs made by postAjax, in order
  awaiting,       \* BIDDER_DONE handlers suspended at "await flushAllDebugEvents()"
  last,           \* what the latest handler or method call did
  history,        \* the events delivered and the direct method calls made, in order
  nEnable,        \* number of enableAnalytics calls made
  arg,            \* the value handed to a helper function called on its own
  ret             \* what the helper function did with it

vars == <<enabled, initOptions, localContext, gets, posts, awaiting, last,
          history, nEnable, arg, ret>>

(***************************************************************************)
(* Bounds of the model.                                                    *)
(***************************************************************************)
MaxEvents == 4
MaxEnable == 1
MaxFields == 3     \* own fields of a payload handed to a helper function

(***************************************************************************)
(* Constants of the program.                                               *)
(***************************************************************************)
BIDDER_CODE == "mobkoi"

AUCTION_INIT == "auctionInit"
BID_RESPONSE == "bidResponse"
AUCTION_END == "auctionEnd"
AD_RENDER_SUCCEEDED == "adRenderSucceeded"
BID_WON == "bidWon"
BIDDER_DONE == "bidderDone"
AUCTION_TIMEOUT == "auctionTimeout"
NO_BID == "noBid"
BID_REJECTED == "bidRejected"
BIDDER_ERROR == "bidderError"
AD_RENDER_FAILED == "adRenderFailed"

CUSTOM_EVENTS == [BID_LOSS |-> "bidLoss"]

DEBUG_EVENT_LEVELS == [info |-> "info", warn |-> "warn", error |-> "error"]

COMMON_FIELDS_TO_OMIT == {"ad", "adm"}

OBJECT_TYPES ==
  [AUCTION |-> "prebid_auction",
   BIDDER_REQUEST |-> "bidder_request",
   ORTB_BID |-> "ortb_bid",
   PREBID_RESPONSE_INTERPRETED |-> "prebid_bid_interpreted",
   PREBID_RESPONSE_NOT_INTERPRETED |-> "prebid_bid_not_interpreted",
   PREBID_BID_REQUEST |-> "prebid_bid_request",
   AD_DOC_AND_PREBID_BID |-> "ad_doc_and_prebid_bid",
   AD_DOC_AND_PREBID_BID_WITH_ERROR |-> "ad_doc_and_prebid_bid_with_error",
   BIDDER_ERROR_ARGS |-> "bidder_error_args"]

\* The declaration order with the not-interpreted response (requestId) ahead
\* of the interpreted one (requestId, ortbBidResponse)
OBJECT_TYPES_VALUES_GeneralFirst ==
  << "prebid_auction", "bidder_request", "ortb_bid", "prebid_bid_not_interpreted",
     "prebid_bid_interpreted", "prebid_bid_request", "ad_doc_and_prebid_bid",
     "ad_doc_and_prebid_bid_with_error", "bidder_error_args" >>

\* Object.values(OBJECT_TYPES): the declaration order determineObjType walks.
OBJECT_TYPES_VALUES ==
  << "prebid_auction", "bidder_request", "ortb_bid", "prebid_bid_interpreted",
     "prebid_bid_not_interpreted", "prebid_bid_request", "ad_doc_and_prebid_bid",
     "ad_doc_and_prebid_bid_with_error", "bidder_error_args" >>

OBJECT_TYPES_UNIQUE_FIELDS ==
  [prebid_auction |-> {"auctionStatus"},
   bidder_request |-> {"bidderRequestId"},
   ortb_bid |-> {"adm", "impid"},
   prebid_bid_interpreted |-> {"requestId", "ortbBidResponse"},
   prebid_bid_not_interpreted |-> {"requestId"},
   prebid_bid_request |-> {"bidId"},
   ad_doc_and_prebid_bid |-> {"doc", "bid"},
   ad_doc_and_prebid_bid_with_error |-> {"bid", "reason", "message"},
   bidder_error_args |-> {"error", "bidderRequest"}]

\* Date.now(), read when an event carries no timestamp of its own.
DateNow == 1000

(***************************************************************************)
(* JavaScript values.                                                      *)
(***************************************************************************)
\* null, where an object is expected
Null == [isNull |-> TRUE]
IsNull(obj) == "isNull" \in DOMAIN obj

\* A value that is not an object: undefined, a number, a string, a boolean
Primitive(type) == [typeof |-> type]
IsPrimitive(v) == DOMAIN v = {"typeof"}

\* The null objType of determineObjType before a type matches.
NoType == "null"

\* obj[f] of a string property; undefined reads as "" (both are falsy)
GetStr(obj, f) == IF f \in DOMAIN obj THEN obj[f] ELSE ""
\* obj[f] of a number property; undefined reads as 0 (both are falsy)
GetNum(obj, f) == IF f \in DOMAIN obj THEN obj[f] ELSE 0
\* obj[f] of an object property; undefined reads as Null (both are falsy)
GetObj(obj, f) == IF f \in DOMAIN obj THEN obj[f] ELSE Null

\* The properties that hold objects: nested payloads, and the sub-payloads of
\* an accumulated payload, which are keyed by object type or by
\* "<eventType>_caughtError".
EventTypes ==
  { AUCTION_INIT, BID_RESPONSE, AUCTION_END, AD_RENDER_SUCCEEDED, BID_WON,
    BIDDER_DONE, AUCTION_TIMEOUT, NO_BID, BID_REJECTED, BIDDER_ERROR,
    AD_RENDER_FAILED }

CaughtErrorKey(eventType) == eventType \o "_caughtError"

NestedObjectFields ==
  { "ortbBidResponse", "bid", "doc", "bidderRequest", "eventArgs" }
    \cup { OBJECT_TYPES_VALUES[i] : i \in DOMAIN OBJECT_TYPES_VALUES }
    \cup { CaughtErrorKey(e) : e \in EventTypes }

\* pick(obj, properties) of utils.js: the clone of obj with only these properties
pick(obj, properties) ==
  IF IsNull(obj) THEN [f \in {} |-> ""]
  ELSE [f \in (DOMAIN obj \cap properties) |-> obj[f]]

\* mergeDeep(target, source) of utils.js: source's values win, objects merge
RECURSIVE mergeDeep(_, _)
mergeDeep(target, source) ==
  [k \in DOMAIN target \cup DOMAIN source |->
     IF k \notin DOMAIN source THEN target[k]
     ELSE IF k \in DOMAIN target /\ k \in NestedObjectFields
            THEN mergeDeep(target[k], source[k])
            ELSE source[k]]

\* An object literal with the one computed key: { [key]: value }
Obj1(key, value) == [k \in {key} |-> value]

\* The properties that hold arrays of objects.
ArrayFields == { "bids", "bidderRequests" }

\* An array is an object too: omitRecursive walks its elements.
RECURSIVE omitRecursive(_, _)
omitRecursive(obj, keysToOmit) ==
  [k \in DOMAIN obj |->
     IF k \in keysToOmit THEN "OMITTED"
     ELSE IF k \in NestedObjectFields THEN omitRecursive(obj[k], keysToOmit)
     ELSE IF k \in ArrayFields
       THEN [i \in DOMAIN obj[k] |-> omitRecursive(obj[k][i], keysToOmit)]
     ELSE obj[k]]

\* The loop of determineObjType with some(...) in place of every(...)
RECURSIVE FirstTypeFromSome(_, _)
FirstTypeFromSome(ownFields, i) ==
  IF i > Len(OBJECT_TYPES_VALUES) THEN NoType
  ELSE IF OBJECT_TYPES_UNIQUE_FIELDS[OBJECT_TYPES_VALUES[i]] \cap ownFields # {}
         THEN OBJECT_TYPES_VALUES[i]
         ELSE FirstTypeFromSome(ownFields, i + 1)

\* The loop of determineObjType falling back to the last type
RECURSIVE FirstTypeFromDefaulting(_, _)
FirstTypeFromDefaulting(ownFields, i) ==
  IF i > Len(OBJECT_TYPES_VALUES) THEN OBJECT_TYPES.BIDDER_ERROR_ARGS
  ELSE IF OBJECT_TYPES_UNIQUE_FIELDS[OBJECT_TYPES_VALUES[i]] \subseteq ownFields
         THEN OBJECT_TYPES_VALUES[i]
         ELSE FirstTypeFromDefaulting(ownFields, i + 1)

\* The loop of determineObjType matching the exact set of own fields
RECURSIVE FirstTypeFromExact(_, _)
FirstTypeFromExact(ownFields, i) ==
  IF i > Len(OBJECT_TYPES_VALUES) THEN NoType
  ELSE IF OBJECT_TYPES_UNIQUE_FIELDS[OBJECT_TYPES_VALUES[i]] = ownFields
         THEN OBJECT_TYPES_VALUES[i]
         ELSE FirstTypeFromExact(ownFields, i + 1)


(***************************************************************************)
(* Payload classifier and identifier resolvers.                            *)
(***************************************************************************)
\* The loop of determineObjType from position i on: the first type, in
\* declaration order, whose unique fields are all own properties.
RECURSIVE FirstTypeFrom(_, _)
FirstTypeFrom(ownFields, i) ==
  IF i > Len(OBJECT_TYPES_VALUES) THEN NoType
  ELSE IF OBJECT_TYPES_UNIQUE_FIELDS[OBJECT_TYPES_VALUES[i]] \subseteq ownFields
         THEN OBJECT_TYPES_VALUES[i]
         ELSE FirstTypeFrom(ownFields, i + 1)

\* determineObjType(eventArgs) throws "Unable to determine track args type"
determineObjTypeThrows(eventArgs) ==
  \/ IsPrimitive(eventArgs)
  \/ IsNull(eventArgs)
  \/ FirstTypeFrom(DOMAIN eventArgs, 1) = NoType

\* determineObjType(eventArgs), where it returns
determineObjType(eventArgs) == FirstTypeFrom(DOMAIN eventArgs, 1)

\* getOrtbId(bid) throws "Not a valid bid object"
getOrtbIdThrows(bid) ==
  /\ GetStr(bid, "id") = ""
  /\ GetStr(bid, "ortbId") = ""
  /\ GetStr(GetObj(bid, "ortbBidResponse"), "id") = ""

\* getOrtbId(bid) trying bid.ortbId before bid.id
getOrtbIdAliasFirst(bid) ==
  IF GetStr(bid, "ortbId") # "" THEN bid.ortbId
  ELSE IF GetStr(bid, "id") # "" THEN bid.id
  ELSE GetStr(GetObj(bid, "ortbBidResponse"), "id")

\* getOrtbId(bid), where it returns
getOrtbId(bid) ==
  IF GetStr(bid, "id") # "" THEN bid.id
  ELSE IF GetStr(bid, "ortbId") # "" THEN bid.ortbId
  ELSE GetStr(GetObj(bid, "ortbBidResponse"), "id")

\* safeGetOrtbId(obj): "" stands for the null it returns
safeGetOrtbId(obj) == IF getOrtbIdThrows(obj) THEN "" ELSE getOrtbId(obj)

\* getImpId(bid) trying bid.requestId before bid.impid
getImpIdRequestIdFirst(bid) ==
  IF GetStr(bid, "requestId") # "" THEN bid.requestId
  ELSE IF GetStr(bid, "impid") # "" THEN bid.impid
  ELSE GetStr(bid, "bidId")

\* getImpId(bid) throws: never, `bid &&` guards the reads of null and undefined
getImpIdThrows(bid) == FALSE

\* getImpId(bid): "" stands for the null it returns
getImpId(bid) ==
  IF GetStr(bid, "impid") # "" THEN bid.impid
  ELSE IF GetStr(bid, "requestId") # "" THEN bid.requestId
  ELSE GetStr(bid, "bidId")

isMobkoiBid(prebidBid) ==
  ~IsNull(prebidBid) /\ GetStr(prebidBid, "bidderCode") = BIDDER_CODE

(***************************************************************************)
(* Field projector.                                                        *)
(***************************************************************************)
EmptyObj == [f \in {} |-> ""]

pickOrtbBid(eventArgs) ==
  pick(eventArgs, {"impid", "id", "price", "cur", "crid", "cid", "lurl", "cpm"})

pickBidderRequest(eventArgs) ==
  pick(eventArgs, {"auctionId", "bidId", "bidderCode", "bidderRequestId", "timeout"})

pickDoc(eventArgs) ==
  pick(GetObj(eventArgs, "doc"), {"visibilityState", "readyState", "hidden"})

\* pickKeyFields(objType, eventArgs) throws: eventArgs.bids.map of no array
pickKeyFieldsThrows(objType, eventArgs) ==
  objType = OBJECT_TYPES.PREBID_BID_REQUEST /\ "bids" \notin DOMAIN eventArgs

\* pickKeyFields(objType, eventArgs), where it returns
pickKeyFields(objType, eventArgs) ==
  CASE objType = OBJECT_TYPES.AUCTION ->
         pick(eventArgs, {"auctionId", "adUnitCodes", "auctionStart", "auctionEnd",
                          "auctionStatus", "bidderRequestId", "timeout", "timestamp"})
    [] objType = OBJECT_TYPES.BIDDER_REQUEST -> pickBidderRequest(eventArgs)
    [] objType = OBJECT_TYPES.ORTB_BID -> pickOrtbBid(eventArgs)
    [] objType = OBJECT_TYPES.PREBID_RESPONSE_INTERPRETED ->
         mergeDeep(
           pick(eventArgs, {"requestId", "creativeId", "cpm", "currency", "bidderCode",
                            "adUnitCode", "ttl", "adId", "width", "height",
                            "requestTimestamp", "responseTimestamp", "seatBidId",
                            "statusMessage", "timeToRespond", "rejectionReason",
                            "ortbId", "auctionId", "mediaType", "bidderRequestId"}),
           [ortbBidResponse |-> pickOrtbBid(GetObj(eventArgs, "ortbBidResponse"))])
    [] objType = OBJECT_TYPES.PREBID_BID_REQUEST ->
         mergeDeep(
           pick(eventArgs, {"bidderRequestId"}),
           [bids |-> [i \in DOMAIN eventArgs.bids |-> [eventArgs |-> eventArgs.bids[i]]]])
    [] objType = OBJECT_TYPES.AD_DOC_AND_PREBID_BID -> [doc |-> pickDoc(eventArgs)]
    [] objType = OBJECT_TYPES.AD_DOC_AND_PREBID_BID_WITH_ERROR ->
         [reason |-> GetStr(eventArgs, "reason"),
          message |-> GetStr(eventArgs, "message"),
          doc |-> pickDoc(eventArgs)]
    [] objType = OBJECT_TYPES.BIDDER_ERROR_ARGS ->
         [bidderRequest |-> pickBidderRequest(GetObj(eventArgs, "bidderRequest")),
          error |-> IF GetStr(eventArgs, "error") # "" THEN eventArgs.error
                    ELSE "Failed to convert error object to JSON"]
    [] OTHER -> [eventArgs |-> eventArgs]

(***************************************************************************)
(* DebugEvent.                                                             *)
(***************************************************************************)
\* A timestamp that is truthy and not a number (a string, say) is written -1.
NotANumber == -1
IsNumber(timestamp) == timestamp # NotANumber

\* new DebugEvent(...) without the check of the timestamp (1422-1424)
DebugEventThrowsTimestampUnchecked(eventType, level, timestamp) ==
  \/ eventType = ""
  \/ level \notin DOMAIN DEBUG_EVENT_LEVELS

\* new DebugEvent({eventType, level, timestamp, note}) throws
DebugEventThrows(eventType, level, timestamp) ==
  \/ eventType = ""
  \/ level \notin DOMAIN DEBUG_EVENT_LEVELS
  \/ (timestamp # 0 /\ ~IsNumber(timestamp))

\* new DebugEvent({eventType, level, timestamp, note}); note "" is no note
DebugEvent(eventType, level, timestamp, note) ==
  [eventType |-> eventType,
   level |-> level,
   timestamp |-> IF timestamp # 0 THEN timestamp ELSE DateNow,
   note |-> note]

(***************************************************************************)
(* BidContext.  A context is held with the key it is stored under in       *)
(* LocalContext.bidContexts.                                               *)
(***************************************************************************)
\* new BidContext(...) without the check of the type (1376-1382)
BidContextThrowsAnyType(bidResponse) ==
  \/ IsNull(bidResponse)
  \/ determineObjTypeThrows(bidResponse)

\* new BidContext({localContext, prebidOrOrtbBidResponse}) throws
BidContextThrows(bidResponse) ==
  \/ IsNull(bidResponse)
  \/ determineObjTypeThrows(bidResponse)
  \/ determineObjType(bidResponse) \notin
       {OBJECT_TYPES.ORTB_BID, OBJECT_TYPES.PREBID_RESPONSE_INTERPRETED}

\* new BidContext({localContext, prebidOrOrtbBidResponse}), where it returns
BidContext(key, bidResponse) ==
  LET objType == determineObjType(bidResponse) IN
  [key |-> key,
   ortbBidResponse |-> IF objType = OBJECT_TYPES.ORTB_BID THEN bidResponse
                       ELSE GetObj(bidResponse, "ortbBidResponse"),
   prebidBidResponse |-> IF objType = OBJECT_TYPES.ORTB_BID THEN Null
                         ELSE bidResponse,
   bidWin |-> FALSE,
   lurlTriggered |-> FALSE,
   events |-> <<>>,
   payload |-> EmptyObj]

\* get impid(), for a context the constructor built
BidContext_impid(ctx) ==
  IF ~IsNull(ctx.ortbBidResponse) THEN GetStr(ctx.ortbBidResponse, "impid")
  ELSE GetStr(ctx.prebidBidResponse, "requestId")

\* get ortbId() throws
BidContext_ortbIdThrows(ctx) ==
  IF ~IsNull(ctx.ortbBidResponse) THEN getOrtbIdThrows(ctx.ortbBidResponse)
  ELSE getOrtbIdThrows(ctx.prebidBidResponse)

\* get ortbId(), where it returns
BidContext_ortbId(ctx) ==
  IF ~IsNull(ctx.ortbBidResponse) THEN getOrtbId(ctx.ortbBidResponse)
  ELSE getOrtbId(ctx.prebidBidResponse)

\* mergePayload(newValues)
BidContext_mergePayload(ctx, newValues) ==
  [ctx EXCEPT !.payload = mergeDeep(@, newValues)]

\* pushEvent that pushes the event twice
pushEventTwice(ctx, bugEvent, payload) ==
  LET pushed == [ctx EXCEPT !.events = Append(Append(@, bugEvent), bugEvent)] IN
  IF IsNull(payload) THEN pushed ELSE BidContext_mergePayload(pushed, payload)

\* pushEvent(bugEvent, payload) without line 1403: the payload is merged but
\* the event is not kept
pushEventPayloadOnly(ctx, bugEvent, payload) ==
  IF IsNull(payload) THEN ctx ELSE BidContext_mergePayload(ctx, payload)


\* pushEvent(bugEvent, payload); payload Null is the undefined default
pushEvent(ctx, bugEvent, payload) ==
  LET pushed == [ctx EXCEPT !.events = Append(@, bugEvent)] IN
  IF IsNull(payload) THEN pushed ELSE BidContext_mergePayload(pushed, payload)

(***************************************************************************)
(* LocalContext.  bidContexts is the object's entries in insertion order,  *)
(* the order _each and Object.values walk it in.                           *)
(***************************************************************************)
NewLocalContext ==
  [bidContexts |-> <<>>,
   commonPayload |-> EmptyObj,
   auction |-> Null,
   bidderRequests |-> <<>>,
   commonBidContextEvents |-> <<>>,
   commonBidContextEventsFlushed |-> FALSE]

isEmpty(bidContexts) == Len(bidContexts) = 0

\* this.bidContexts[ortbId]: the position of the entry, 0 for undefined
IndexOfKey(bidContexts, ortbId) ==
  IF \E i \in DOMAIN bidContexts : bidContexts[i].key = ortbId
    THEN CHOOSE i \in DOMAIN bidContexts : bidContexts[i].key = ortbId
    ELSE 0

\* this.bidContexts[ortbId] = newBidContext
StoreBidContext(bidContexts, newBidContext) ==
  LET i == IndexOfKey(bidContexts, newBidContext.key) IN
  IF i = 0 THEN Append(bidContexts, newBidContext)
  ELSE [bidContexts EXCEPT ![i] = newBidContext]

initialise(lc, auction) ==
  [lc EXCEPT !.auction = pick(auction, {"auctionId", "auctionEnd"}),
             !.bidderRequests = IF "bidderRequests" \in DOMAIN auction
                                  THEN auction.bidderRequests ELSE <<>>]

\* The outcome of a call that may throw: the LocalContext it leaves, the
\* GETs it issued, and the error it threw, if any.
Returned(lc, sent) == [threw |-> FALSE, err |-> "", lc |-> lc, gets |-> sent]
Thrown(lc, sent, err) == [threw |-> TRUE, err |-> err, lc |-> lc, gets |-> sent]

ErrObjType == "Unable to determine track args type"
ErrOrtbId == "Failed to retrieve ORTB ID from bid object"
ErrBidContext == "Unable to create a new Bid Context"
ErrTimestamp == "Timestamp must be a number"
ErrPickKeyFields == "Cannot read properties of undefined (reading 'map')"
ErrPostAjax == "Failed to make post request to endpoint"

\* The new BidContext without the _each of lines 804-807: the common events
\* are not pushed to it
SeededBidContextWithoutEvents(lc, ortbId, bid) ==
  BidContext_mergePayload(BidContext(ortbId, bid), lc.commonPayload)

\* The new BidContext with the data stored in the LocalContext added to it.
SeededBidContext(lc, ortbId, bid) ==
  LET RECURSIVE PushAll(_, _)
      PushAll(ctx, i) ==
        IF i > Len(lc.commonBidContextEvents) THEN ctx
        ELSE PushAll(pushEvent(ctx, lc.commonBidContextEvents[i], Null), i + 1)
  IN BidContext_mergePayload(PushAll(BidContext(ortbId, bid), 1), lc.commonPayload)

\* retrieveBidContext(bid) throws
retrieveBidContextThrows(lc, bid) ==
  \/ getOrtbIdThrows(bid)
  \/ /\ IndexOfKey(lc.bidContexts, getOrtbId(bid)) = 0
     /\ BidContextThrows(bid)

retrieveBidContextError(lc, bid) ==
  IF getOrtbIdThrows(bid) THEN ErrOrtbId
  ELSE IF determineObjTypeThrows(bid) THEN ErrObjType
  ELSE ErrBidContext

\* retrieveBidContext(bid) without the lookup of lines 787-791: a new context
\* is built and stored whether or not one exists
retrieveBidContextAlwaysNew(lc, bid) ==
  [lc EXCEPT !.bidContexts =
     StoreBidContext(@, SeededBidContext(lc, getOrtbId(bid), bid))]

\* retrieveBidContext(bid), where it returns: the LocalContext after the call
retrieveBidContext(lc, bid) ==
  LET ortbId == getOrtbId(bid) IN
  IF IndexOfKey(lc.bidContexts, ortbId) # 0 THEN lc
  ELSE [lc EXCEPT !.bidContexts =
          StoreBidContext(@, SeededBidContext(lc, ortbId, bid))]

\* the position in lc.bidContexts of the context retrieveBidContext(bid) returns
retrievedIndex(lc, bid) == IndexOfKey(retrieveBidContext(lc, bid).bidContexts, getOrtbId(bid))

\* The condition of line 821 without !bidWin
LossBeaconDueWhateverWin(bidContext) ==
  /\ GetStr(bidContext.ortbBidResponse, "lurl") # ""
  /\ ~bidContext.lurlTriggered

\* The condition under which triggerAllLossBidLossBeacon sends a context's beacon
LossBeaconDue(bidContext) ==
  /\ GetStr(bidContext.ortbBidResponse, "lurl") # ""
  /\ ~bidContext.bidWin
  /\ ~bidContext.lurlTriggered

\* triggerAllLossBidLossBeacon() without line 825: lurlTriggered is not set
triggerAllLossBidLossBeaconUnflagged(bidContexts) == bidContexts

\* triggerAllLossBidLossBeacon() that assigns the flag on every context:
\* bidContext.lurlTriggered = the condition of line 821
triggerAllLossBidLossBeaconAssigning(bidContexts) ==
  [i \in DOMAIN bidContexts |->
     [bidContexts[i] EXCEPT !.lurlTriggered = LossBeaconDue(bidContexts[i])]]

\* triggerAllLossBidLossBeacon(): the contexts after the call
triggerAllLossBidLossBeacon(bidContexts) ==
  [i \in DOMAIN bidContexts |->
     IF LossBeaconDue(bidContexts[i])
       THEN [bidContexts[i] EXCEPT !.lurlTriggered = TRUE]
       ELSE bidContexts[i]]

\* triggerAllLossBidLossBeacon(): the sendGetRequest calls it makes, in order
LossBeaconsSent(bidContexts) ==
  LET due == SelectSeq(bidContexts, LossBeaconDue) IN
  [i \in DOMAIN due |-> [url |-> due[i].ortbBidResponse.lurl, key |-> due[i].key]]

\* pushEventToAllBidContexts without the return of line 843: the flag is
\* reset whether or not a context exists
pushEventToAllBidContextsUnflushing(lc, debugEvent, payload) ==
  LET pushed == [lc EXCEPT !.commonBidContextEvents = Append(@, debugEvent),
                           !.commonPayload = mergeDeep(@, payload),
                           !.commonBidContextEventsFlushed = FALSE]
  IN [pushed EXCEPT !.bidContexts =
        [i \in DOMAIN @ |-> pushEvent(@[i], debugEvent, pushed.commonPayload)]]

\* pushEventToAllBidContexts that starts the common log anew when it is flushed
pushEventToAllBidContextsRestarting(lc, debugEvent, payload) ==
  LET pushed == [lc EXCEPT !.commonBidContextEvents =
                              IF lc.commonBidContextEventsFlushed
                                THEN <<debugEvent>> ELSE Append(@, debugEvent),
                           !.commonPayload = mergeDeep(@, payload)]
  IN IF isEmpty(pushed.bidContexts)
       THEN [pushed EXCEPT !.commonBidContextEventsFlushed = FALSE]
       ELSE [pushed EXCEPT !.bidContexts =
               [i \in DOMAIN @ |-> pushEvent(@[i], debugEvent, pushed.commonPayload)]]

\* pushEventToAllBidContexts that forwards the event to the first context only
pushEventToAllBidContextsFirstOnly(lc, debugEvent, payload) ==
  LET pushed == [lc EXCEPT !.commonBidContextEvents = Append(@, debugEvent),
                           !.commonPayload = mergeDeep(@, payload)]
  IN IF isEmpty(pushed.bidContexts)
       THEN [pushed EXCEPT !.commonBidContextEventsFlushed = FALSE]
       ELSE [pushed EXCEPT !.bidContexts =
               [i \in DOMAIN @ |->
                  IF i = 1 THEN pushEvent(@[i], debugEvent, pushed.commonPayload)
                  ELSE @[i]]]

\* pushEventToAllBidContexts(debugEvent, payload)
pushEventToAllBidContexts(lc, debugEvent, payload) ==
  LET pushed == [lc EXCEPT !.commonBidContextEvents = Append(@, debugEvent),
                           !.commonPayload = mergeDeep(@, payload)]
  IN IF isEmpty(pushed.bidContexts)
       THEN [pushed EXCEPT !.commonBidContextEventsFlushed = FALSE]
       ELSE [pushed EXCEPT !.bidContexts =
               [i \in DOMAIN @ |-> pushEvent(@[i], debugEvent, pushed.commonPayload)]]

\* The test of lines 873-876 accepting every level
IsOfAnyLevel(event) == event.level \in {"info", "warn", "error"}

IsWarnOrError(event) ==
  event.level = DEBUG_EVENT_LEVELS.error \/ event.level = DEBUG_EVENT_LEVELS.warn

\* The condition of lines 870-877 without isEmpty(this.bidContexts)
FlushesCommonEventsAlways(lc) ==
  /\ ~lc.commonBidContextEventsFlushed
  /\ \E i \in DOMAIN lc.commonBidContextEvents :
       IsWarnOrError(lc.commonBidContextEvents[i])

\* flushAllDebugEvents() submits the common events
FlushesCommonEvents(lc) ==
  /\ isEmpty(lc.bidContexts)
  /\ ~lc.commonBidContextEventsFlushed
  /\ \E i \in DOMAIN lc.commonBidContextEvents :
       IsWarnOrError(lc.commonBidContextEvents[i])

\* The common report stamped with the first cached bid request instead
CommonReportOfFirstBidRequest(lc) ==
  [impid |-> IF Len(lc.bidderRequests) > 0 /\ Len(lc.bidderRequests[1].bids) > 0
               THEN getImpId(lc.bidderRequests[1].bids[1]) ELSE "",
   ortbId |-> safeGetOrtbId(lc.commonPayload),
   events |-> lc.commonBidContextEvents,
   bidWin |-> "null",
   payload |-> lc.commonPayload]

\* The body flushAllDebugEvents posts for the common events
CommonReport(lc) ==
  [impid |-> getImpId(lc.commonPayload),
   ortbId |-> safeGetOrtbId(lc.commonPayload),
   events |-> lc.commonBidContextEvents,
   bidWin |-> "null",
   payload |-> lc.commonPayload]

\* The body flushAllDebugEvents posts for one bid context
BidContextReport(currentBidContext) ==
  [impid |-> BidContext_impid(currentBidContext),
   ortbId |-> BidContext_ortbId(currentBidContext),
   bidWin |-> IF currentBidContext.bidWin THEN "true" ELSE "false",
   events |-> currentBidContext.events,
   payload |-> currentBidContext.payload]

\* flushAllDebugEvents() without lines 894-908: the bid contexts are not posted
FlushReportsCommonOnly(lc) ==
  IF FlushesCommonEvents(lc) THEN <<CommonReport(lc)>> ELSE <<>>

\* flushAllDebugEvents(): the bodies handed to postAjax, in order.  A context
\* whose ortbId getter throws rejects its promise before postAjax is called.
FlushReports(lc) ==
  LET reporting == SelectSeq(lc.bidContexts, LAMBDA c : ~BidContext_ortbIdThrows(c))
  IN (IF FlushesCommonEvents(lc) THEN <<CommonReport(lc)>> ELSE <<>>)
       \o [i \in DOMAIN reporting |-> BidContextReport(reporting[i])]

\* flushAllDebugEvents(): a promise of flushPromises is rejected before any POST
FlushGetterThrows(lc) ==
  \E i \in DOMAIN lc.bidContexts : BidContext_ortbIdThrows(lc.bidContexts[i])

\* flushAllDebugEvents() without line 891: the flushed flag is not set
flushAllDebugEventsUnflagged(lc) == lc

\* flushAllDebugEvents(): the LocalContext after the synchronous part
flushAllDebugEvents(lc) ==
  IF FlushesCommonEvents(lc)
    THEN [lc EXCEPT !.commonBidContextEventsFlushed = TRUE]
    ELSE lc

\* postAjax(url, data): the promise it returns is pending until ajax calls
\* resolve back, or already rejected because ajax threw.
PostOutcomes == {"pending", "rejected"}

postAjax(url, data, outcome) == [url |-> url, data |-> data, state |-> outcome]

\* `${initOptions.endpoint}/debug`
DebugUrl(options) ==
  (IF "endpoint" \in DOMAIN options THEN options.endpoint ELSE "undefined") \o "/debug"

\* A flush that stops at the first postAjax whose ajax call throws
FlushPostsUntilRejected(lc, options, outcomes) ==
  LET reports == FlushReports(lc)
      stop == IF \E i \in DOMAIN reports : outcomes[i] = "rejected"
                THEN CHOOSE i \in DOMAIN reports :
                       /\ outcomes[i] = "rejected"
                       /\ \A j \in 1..(i - 1) : outcomes[j] # "rejected"
                ELSE Len(reports)
  IN [i \in 1..stop |-> postAjax(DebugUrl(options), reports[i], outcomes[i])]

\* The postAjax calls of one flushAllDebugEvents(), given what ajax does to each
FlushPosts(lc, options, outcomes) ==
  LET reports == FlushReports(lc) IN
  [i \in DOMAIN reports |-> postAjax(DebugUrl(options), reports[i], outcomes[i])]

(***************************************************************************)
(* track({eventType, args}): the try block of each event type.  Each       *)
(* operator gives the outcome of the block up to its break or its throw.   *)
(***************************************************************************)
ArgsEntry(argsType, eventArgs) == Obj1(argsType, pickKeyFields(argsType, eventArgs))

\* case AUCTION_INIT
TryAuctionInit(lc, eventArgs) ==
  IF determineObjTypeThrows(eventArgs) THEN Thrown(lc, <<>>, ErrObjType)
  ELSE
    LET argsType == determineObjType(eventArgs)
        initialised == initialise(lc, eventArgs)
        timestamp == GetNum(eventArgs, "timestamp")
    IN IF DebugEventThrows(AUCTION_INIT, DEBUG_EVENT_LEVELS.info, timestamp)
         THEN Thrown(initialised, <<>>, ErrTimestamp)
       ELSE IF pickKeyFieldsThrows(argsType, eventArgs)
         THEN Thrown(initialised, <<>>, ErrPickKeyFields)
       ELSE Returned(
              pushEventToAllBidContexts(
                initialised,
                DebugEvent(AUCTION_INIT, DEBUG_EVENT_LEVELS.info, timestamp, ""),
                ArgsEntry(argsType, eventArgs)),
              <<>>)

\* case AUCTION_END, AUCTION_TIMEOUT, NO_BID, BIDDER_ERROR: one
\* pushEventToAllBidContexts of an event of the given level; timestamp is
\* the event's timestamp argument (0 when the case passes none).
TryPushToAll(lc, eventType, level, timestamp, eventArgs) ==
  IF determineObjTypeThrows(eventArgs) THEN Thrown(lc, <<>>, ErrObjType)
  ELSE
    LET argsType == determineObjType(eventArgs) IN
    IF DebugEventThrows(eventType, level, timestamp)
      THEN Thrown(lc, <<>>, ErrTimestamp)
    ELSE IF pickKeyFieldsThrows(argsType, eventArgs)
      THEN Thrown(lc, <<>>, ErrPickKeyFields)
    ELSE Returned(
           pushEventToAllBidContexts(
             lc, DebugEvent(eventType, level, timestamp, ""),
             ArgsEntry(argsType, eventArgs)),
           <<>>)

\* The same handlers with a retrieveBidContext that stores the new context
\* under its key before the constructor has accepted the bid
TryPushToOneStoringFirst(lc, eventType, level, eventArgs, prebidBid) ==
  IF determineObjTypeThrows(eventArgs) THEN Thrown(lc, <<>>, ErrObjType)
  ELSE IF getOrtbIdThrows(prebidBid) THEN Thrown(lc, <<>>, ErrOrtbId)
  ELSE IF retrieveBidContextThrows(lc, prebidBid)
    THEN Thrown([lc EXCEPT !.bidContexts =
                   Append(@, [key |-> getOrtbId(prebidBid),
                              ortbBidResponse |-> Null,
                              prebidBidResponse |-> Null,
                              bidWin |-> FALSE, lurlTriggered |-> FALSE,
                              events |-> <<>>, payload |-> EmptyObj])],
                <<>>, retrieveBidContextError(lc, prebidBid))
  ELSE
    LET argsType == determineObjType(eventArgs)
        retrieved == retrieveBidContext(lc, prebidBid)
        i == retrievedIndex(lc, prebidBid)
    IN IF pickKeyFieldsThrows(argsType, eventArgs)
         THEN Thrown(retrieved, <<>>, ErrPickKeyFields)
       ELSE Returned(
              [retrieved EXCEPT !.bidContexts[i] =
                 pushEvent(@, DebugEvent(eventType, level, 0, ""),
                           ArgsEntry(argsType, eventArgs))],
              <<>>)

\* case BID_RESPONSE, BID_REJECTED, AD_RENDER_FAILED, AD_RENDER_SUCCEEDED:
\* retrieveBidContext(prebidBid).pushEvent of an event of the given level
TryPushToOne(lc, eventType, level, eventArgs, prebidBid) ==
  IF determineObjTypeThrows(eventArgs) THEN Thrown(lc, <<>>, ErrObjType)
  ELSE IF retrieveBidContextThrows(lc, prebidBid)
    THEN Thrown(lc, <<>>, retrieveBidContextError(lc, prebidBid))
  ELSE
    LET argsType == determineObjType(eventArgs)
        retrieved == retrieveBidContext(lc, prebidBid)
        i == retrievedIndex(lc, prebidBid)
    IN IF pickKeyFieldsThrows(argsType, eventArgs)
         THEN Thrown(retrieved, <<>>, ErrPickKeyFields)
       ELSE Returned(
              [retrieved EXCEPT !.bidContexts[i] =
                 pushEvent(@, DebugEvent(eventType, level, 0, ""),
                           ArgsEntry(argsType, eventArgs))],
              <<>>)

\* case BID_WON handled as an event for all contexts: no context is marked
TryBidWonUnmarked(lc, eventArgs) ==
  TryPushToAll(lc, BID_WON, DEBUG_EVENT_LEVELS.info, 0, eventArgs)

\* case BID_WON
TryBidWon(lc, eventArgs) ==
  IF determineObjTypeThrows(eventArgs) THEN Thrown(lc, <<>>, ErrObjType)
  ELSE IF isMobkoiBid(eventArgs) /\ retrieveBidContextThrows(lc, eventArgs)
    THEN Thrown(lc, <<>>, retrieveBidContextError(lc, eventArgs))
  ELSE
    LET argsType == determineObjType(eventArgs)
        marked == IF isMobkoiBid(eventArgs)
                    THEN [retrieveBidContext(lc, eventArgs) EXCEPT
                            !.bidContexts[retrievedIndex(lc, eventArgs)].bidWin = TRUE]
                    ELSE lc
        sent == LossBeaconsSent(marked.bidContexts)
        triggered == [marked EXCEPT !.bidContexts = triggerAllLossBidLossBeacon(@)]
    IN IF ~isEmpty(triggered.bidContexts) /\ pickKeyFieldsThrows(argsType, eventArgs)
         THEN Thrown(triggered, sent, ErrPickKeyFields)
       ELSE Returned(
              [triggered EXCEPT !.bidContexts =
                 [i \in DOMAIN @ |->
                    pushEvent(@[i],
                              DebugEvent(IF @[i].bidWin THEN BID_WON
                                         ELSE CUSTOM_EVENTS.BID_LOSS,
                                         DEBUG_EVENT_LEVELS.info, 0, ""),
                              ArgsEntry(argsType, eventArgs))]],
              sent)

\* case BIDDER_DONE without line 1200: the loss beacons are not triggered
TryBidderDoneWithoutBeacons(lc, eventArgs) ==
  TryPushToAll(lc, BIDDER_DONE, DEBUG_EVENT_LEVELS.info,
               GetNum(eventArgs, "timestamp"), eventArgs)

\* case BIDDER_DONE, up to the call of flushAllDebugEvents
TryBidderDone(lc, eventArgs) ==
  LET pushed == TryPushToAll(lc, BIDDER_DONE, DEBUG_EVENT_LEVELS.info,
                             GetNum(eventArgs, "timestamp"), eventArgs)
  IN IF pushed.threw THEN pushed
     ELSE Returned([pushed.lc EXCEPT !.bidContexts = triggerAllLossBidLossBeacon(@)],
                   LossBeaconsSent(pushed.lc.bidContexts))

\* The catch block throws itself (its DebugEvent rejects the timestamp)
CatchThrows(eventType, eventArgs) ==
  DebugEventThrows(eventType, DEBUG_EVENT_LEVELS.error, GetNum(eventArgs, "timestamp"))

\* A catch block that only rethrows
CatchSwallowed(lc, eventType, eventArgs, error) == lc

\* The catch block of track: the LocalContext it leaves
Catch(lc, eventType, eventArgs, error) ==
  IF CatchThrows(eventType, eventArgs) THEN lc
  ELSE pushEventToAllBidContexts(
         lc,
         DebugEvent(eventType, DEBUG_EVENT_LEVELS.error,
                    GetNum(eventArgs, "timestamp"),
                    "Error occurred when processing this event."),
         Obj1(CaughtErrorKey(eventType),
              [eventArgs |-> omitRecursive(eventArgs, COMMON_FIELDS_TO_OMIT),
               error |-> error]))

\* The catch block of track: the error the promise of track is rejected with
Rethrown(eventType, eventArgs, error) ==
  IF CatchThrows(eventType, eventArgs) THEN ErrTimestamp ELSE error

(***************************************************************************)
(* The event payloads the host framework delivers, and the configurations  *)
(* the page passes to enableAnalytics.                                     *)
(***************************************************************************)
BidRequest(bidId) == [bidId |-> bidId, bidder |-> BIDDER_CODE, adUnitCode |-> "banner-ad"]

BidderRequestArgs ==
  [bidderRequestId |-> "r1", bidderCode |-> BIDDER_CODE, auctionId |-> "a1",
   timestamp |-> 7, bids |-> <<BidRequest("b1"), BidRequest("b2")>>]

AuctionArgs(auctionStatus) ==
  [auctionId |-> "a1", auctionStatus |-> auctionStatus, timestamp |-> 7,
   bidderRequests |-> <<BidderRequestArgs>>]

\* An auction object without its auctionStatus: no object type matches it
AuctionArgsNoStatus ==
  [auctionId |-> "a1", timestamp |-> 7, bidderRequests |-> <<BidderRequestArgs>>]

\* The ORTB bid of the ad server; o1 carries a loss URL, o2 does not
OrtbBidResponse(ortbId, impid) ==
  IF ortbId = "o1"
    THEN [id |-> ortbId, impid |-> impid, price |-> 1, adm |-> "<div>ad</div>",
          lurl |-> "https://adserver/loss/o1"]
    ELSE [id |-> ortbId, impid |-> impid, price |-> 1, adm |-> "<div>ad</div>"]

\* The Prebid bid the bid adapter interprets the ORTB bid into
\* (addCustomFieldsToPrebidBidResponse: ortbId is ortbBidResponse.id)
InterpretedBid(ortbId, impid) ==
  [requestId |-> impid, ortbId |-> ortbId, bidderCode |-> BIDDER_CODE, cpm |-> 1,
   ad |-> "<div>ad</div>", ortbBidResponse |-> OrtbBidResponse(ortbId, impid)]

Bid1 == InterpretedBid("o1", "b1")
Bid2 == InterpretedBid("o2", "b2")

\* The same bid with the bidderRequestId the framework adds to a bid
Bid1WithBidderRequestId ==
  [requestId |-> "b1", ortbId |-> "o1", bidderCode |-> BIDDER_CODE, cpm |-> 1,
   ad |-> "<div>ad</div>", bidderRequestId |-> "r1",
   ortbBidResponse |-> OrtbBidResponse("o1", "b1")]

\* The winning bid of another bidder
OtherBid == [requestId |-> "b9", bidderCode |-> "other", cpm |-> 2, ad |-> "<div>other</div>"]

\* A bid as the render events of the tests carry it
RenderedBid1 == [requestId |-> "b1", bidId |-> "b1", ortbId |-> "o1", ad |-> "<div>ad</div>"]

BidderErrorArgs ==
  [timestamp |-> 7, error |-> "error", bidderRequest |-> [bidderRequestId |-> "r1"]]

RejectedArgs == [timestamp |-> 7, error |-> "error", bidderRequestId |-> "r1"]

\* A payload with none of the identifying fields
UnknownArgs == [timestamp |-> 7, foo |-> "bar"]

AuctionInitArgs == << AuctionArgs("inProgress"), AuctionArgsNoStatus >>
BidResponseArgs == << Bid1, Bid2, Bid1WithBidderRequestId >>
BidWonArgs == << Bid1, OtherBid >>
AuctionEndArgs == << AuctionArgs("completed") >>
AuctionTimeoutArgs == << AuctionArgs("inProgress") >>
NoBidArgs == << BidderErrorArgs, UnknownArgs >>
BidRejectedArgs == << Bid1, RejectedArgs >>
BidderErrorEventArgs == << BidderErrorArgs >>
AdRenderFailedArgs ==
  << [bid |-> RenderedBid1, reason |-> "exception", message |-> "error"] >>
AdRenderSucceededArgs ==
  << [bid |-> RenderedBid1, doc |-> [visibilityState |-> "visible"]] >>
BidderDoneArgs == << BidderRequestArgs >>

Configs ==
  << [options |-> [publisherId |-> "pub", endpoint |-> "https://collector"]],
     [options |-> [endpoint |-> "https://collector"]],
     [options |-> [publisherId |-> "pub"]] >>

(***************************************************************************)
(* The state machine.                                                      *)
(***************************************************************************)
OpFlush == "flushAllDebugEvents"
OpTrigger == "triggerAllLossBidLossBeacon"

\* No helper function has been called on its own
NotCalled == [fn |-> "none"]

\* What the latest handler or call did: its operation, whether its try block
\* threw and what, how the promise of track settled and with what error, and
\* the state it started from; of the operation before it, its name, the
\* number of reports it posted and the flushed flag it started from.
Did(op, threw, thrown, result, error) ==
  [op |-> op, threw |-> threw, thrown |-> thrown,
   result |-> result, error |-> error,
   before |-> localContext, postsBefore |-> Len(posts), getsBefore |-> Len(gets),
   prevOp |-> last.op, prevPosted |-> Len(posts) - last.postsBefore,
   prevFlushed |-> last.before.commonBidContextEventsFlushed]

Init ==
  /\ enabled = FALSE
  /\ initOptions = EmptyObj
  /\ localContext = NewLocalContext
  /\ gets = <<>>
  /\ posts = <<>>
  /\ awaiting = {}
  /\ last = [op |-> "none", threw |-> FALSE, thrown |-> "",
             result |-> "none", error |-> "",
             before |-> NewLocalContext, postsBefore |-> 0, getsBefore |-> 0,
             prevOp |-> "none", prevPosted |-> 0, prevFlushed |-> FALSE]
  /\ history = <<>>
  /\ nEnable = 0
  /\ arg = Null
  /\ ret = NotCalled

\* enableAnalytics(config) without the checks of lines 1238-1246
EnableAnalyticsUnchecked ==
  \E i \in DOMAIN Configs :
    /\ nEnable < MaxEnable
    /\ nEnable' = nEnable + 1
    /\ initOptions' = Configs[i].options
    /\ enabled' = TRUE
    /\ UNCHANGED <<localContext, gets, posts, awaiting, last, history, arg, ret>>

\* mobkoiAnalytics.enableAnalytics(config)
EnableAnalytics ==
  \E i \in DOMAIN Configs :
    LET config == Configs[i] IN
    /\ nEnable < MaxEnable
    /\ nEnable' = nEnable + 1
    /\ initOptions' = config.options
    /\ enabled' = (enabled \/ (GetStr(config.options, "publisherId") # ""
                               /\ GetStr(config.options, "endpoint") # ""))
    /\ UNCHANGED <<localContext, gets, posts, awaiting, last, history, arg, ret>>

\* The delivery of an event held back while a BIDDER_DONE handler is suspended
DeliveredAfterFlush(eventType, i) ==
  /\ enabled
  /\ awaiting = {}
  /\ Len(history) < MaxEvents
  /\ history' = Append(history, [eventType |-> eventType, args |-> i])


\* The host framework delivers an event to track
Delivered(eventType, i) ==
  /\ enabled
  /\ Len(history) < MaxEvents
  /\ history' = Append(history, [eventType |-> eventType, args |-> i])

\* track() of an event whose handler does not await: the try block, then
\* the catch block if it threw
Handled(eventType, i, eventArgs, try) ==
  /\ Delivered(eventType, i)
  /\ gets' = gets \o try.gets
  /\ localContext' = IF try.threw THEN Catch(try.lc, eventType, eventArgs, try.err)
                     ELSE try.lc
  /\ last' = IF try.threw
               THEN Did(eventType, TRUE, try.err, "rejected",
                        Rethrown(eventType, eventArgs, try.err))
               ELSE Did(eventType, FALSE, "", "resolved", "")
  /\ UNCHANGED <<enabled, initOptions, posts, awaiting, nEnable, arg, ret>>

TrackAuctionInit ==
  \E i \in DOMAIN AuctionInitArgs :
    Handled(AUCTION_INIT, i, AuctionInitArgs[i],
            TryAuctionInit(localContext, AuctionInitArgs[i]))

TrackBidResponse ==
  \E i \in DOMAIN BidResponseArgs :
    Handled(BID_RESPONSE, i, BidResponseArgs[i],
            TryPushToOne(localContext, BID_RESPONSE, DEBUG_EVENT_LEVELS.info,
                         BidResponseArgs[i], BidResponseArgs[i]))

TrackBidWon ==
  \E i \in DOMAIN BidWonArgs :
    Handled(BID_WON, i, BidWonArgs[i], TryBidWon(localContext, BidWonArgs[i]))

TrackAuctionEnd ==
  \E i \in DOMAIN AuctionEndArgs :
    Handled(AUCTION_END, i, AuctionEndArgs[i],
            TryPushToAll(localContext, AUCTION_END, DEBUG_EVENT_LEVELS.info,
                         GetNum(AuctionEndArgs[i], "timestamp"), AuctionEndArgs[i]))

TrackAuctionTimeout ==
  \E i \in DOMAIN AuctionTimeoutArgs :
    Handled(AUCTION_TIMEOUT, i, AuctionTimeoutArgs[i],
            TryPushToAll(localContext, AUCTION_TIMEOUT, DEBUG_EVENT_LEVELS.error,
                         GetNum(AuctionTimeoutArgs[i], "timestamp"),
                         AuctionTimeoutArgs[i]))

TrackNoBid ==
  \E i \in DOMAIN NoBidArgs :
    Handled(NO_BID, i, NoBidArgs[i],
            TryPushToAll(localContext, NO_BID, DEBUG_EVENT_LEVELS.warn, 0,
                         NoBidArgs[i]))

TrackBidRejected ==
  \E i \in DOMAIN BidRejectedArgs :
    Handled(BID_REJECTED, i, BidRejectedArgs[i],
            TryPushToOne(localContext, BID_REJECTED, DEBUG_EVENT_LEVELS.warn,
                         BidRejectedArgs[i], BidRejectedArgs[i]))

TrackBidderError ==
  \E i \in DOMAIN BidderErrorEventArgs :
    Handled(BIDDER_ERROR, i, BidderErrorEventArgs[i],
            TryPushToAll(localContext, BIDDER_ERROR, DEBUG_EVENT_LEVELS.warn, 0,
                         BidderErrorEventArgs[i]))

TrackAdRenderFailed ==
  \E i \in DOMAIN AdRenderFailedArgs :
    Handled(AD_RENDER_FAILED, i, AdRenderFailedArgs[i],
            TryPushToOne(localContext, AD_RENDER_FAILED, DEBUG_EVENT_LEVELS.error,
                         AdRenderFailedArgs[i], GetObj(AdRenderFailedArgs[i], "bid")))

TrackAdRenderSucceeded ==
  \E i \in DOMAIN AdRenderSucceededArgs :
    Handled(AD_RENDER_SUCCEEDED, i, AdRenderSucceededArgs[i],
            TryPushToOne(localContext, AD_RENDER_SUCCEEDED, DEBUG_EVENT_LEVELS.info,
                         AdRenderSucceededArgs[i],
                         GetObj(AdRenderSucceededArgs[i], "bid")))

\* track() of BIDDER_DONE up to its await: the event is pushed, the loss
\* beacons are sent, and flushAllDebugEvents has called postAjax for every
\* report before the handler is suspended on Promise.all.
TrackBidderDone ==
  \E i \in DOMAIN BidderDoneArgs :
    LET eventArgs == BidderDoneArgs[i]
        try == TryBidderDone(localContext, eventArgs)
        n == IF try.threw THEN 0 ELSE Len(FlushReports(try.lc))
    IN \E outcomes \in [1..n -> PostOutcomes] :
         /\ Delivered(BIDDER_DONE, i)
         /\ gets' = gets \o try.gets
         /\ IF try.threw
              THEN /\ localContext' = Catch(try.lc, BIDDER_DONE, eventArgs, try.err)
                   /\ last' = Did(BIDDER_DONE, TRUE, try.err, "rejected",
                                  Rethrown(BIDDER_DONE, eventArgs, try.err))
                   /\ UNCHANGED <<posts, awaiting>>
              ELSE /\ localContext' = flushAllDebugEvents(try.lc)
                   /\ posts' = posts \o FlushPosts(try.lc, initOptions, outcomes)
                   /\ awaiting' = awaiting \cup
                        {[args |-> eventArgs,
                          posts |-> (Len(posts) + 1)..Len(posts'),
                          rejected |-> FlushGetterThrows(try.lc)]}
                   /\ last' = Did(BIDDER_DONE, FALSE, "", "pending", "")
         /\ UNCHANGED <<enabled, initOptions, nEnable, arg, ret>>

\* Promise.all(flushPromises) of a suspended handler is rejected
FlushRejected(w) ==
  w.rejected \/ \E i \in w.posts : posts[i].state = "rejected"

\* Promise.all(flushPromises) of a suspended handler is fulfilled
FlushFulfilled(w) ==
  ~w.rejected /\ \A i \in w.posts : posts[i].state = "resolved"

\* A suspended BIDDER_DONE handler resumes in its catch block
BidderDoneRejects ==
  \E w \in awaiting :
    /\ FlushRejected(w)
    /\ awaiting' = awaiting \ {w}
    /\ localContext' = Catch(localContext, BIDDER_DONE, w.args, ErrPostAjax)
    /\ last' = Did(BIDDER_DONE, TRUE, ErrPostAjax, "rejected",
                   Rethrown(BIDDER_DONE, w.args, ErrPostAjax))
    /\ UNCHANGED <<enabled, initOptions, gets, posts, history, nEnable, arg, ret>>

\* A suspended BIDDER_DONE handler resumes after its await and breaks
BidderDoneResolves ==
  \E w \in awaiting :
    /\ FlushFulfilled(w)
    /\ awaiting' = awaiting \ {w}
    /\ last' = Did(BIDDER_DONE, FALSE, "", "resolved", "")
    /\ UNCHANGED <<enabled, initOptions, localContext, gets, posts, history,
                   nEnable, arg, ret>>

\* A completion that records the common events as flushed only when the
\* request has completed
AjaxSuccessMarkingFlushed ==
  \E i \in DOMAIN posts :
    /\ posts[i].state = "pending"
    /\ posts' = [posts EXCEPT ![i].state = "resolved"]
    /\ localContext' = [localContext EXCEPT !.commonBidContextEventsFlushed = TRUE]
    /\ UNCHANGED <<enabled, initOptions, gets, awaiting, last,
                   history, nEnable, arg, ret>>

\* ajax calls the callback postAjax gave it (resolve)
AjaxSuccess ==
  \E i \in DOMAIN posts :
    /\ posts[i].state = "pending"
    /\ posts' = [posts EXCEPT ![i].state = "resolved"]
    /\ UNCHANGED <<enabled, initOptions, localContext, gets, awaiting, last,
                   history, nEnable, arg, ret>>

\* The request fails: ajax has no error callback of postAjax to call, and
\* the promise stays pending
AjaxError ==
  \E i \in DOMAIN posts :
    /\ posts[i].state = "pending"
    /\ posts' = [posts EXCEPT ![i].state = "failed"]
    /\ UNCHANGED <<enabled, initOptions, localContext, gets, awaiting, last,
                   history, nEnable, arg, ret>>

\* localContext.triggerAllLossBidLossBeacon() called on its own
CallTriggerAllLossBidLossBeacon ==
  /\ Len(history) < MaxEvents
  /\ history' = Append(history, [eventType |-> OpTrigger, args |-> 0])
  /\ gets' = gets \o LossBeaconsSent(localContext.bidContexts)
  /\ localContext' = [localContext EXCEPT
                        !.bidContexts = triggerAllLossBidLossBeacon(@)]
  /\ last' = Did(OpTrigger, FALSE, "", "resolved", "")
  /\ UNCHANGED <<enabled, initOptions, posts, awaiting, nEnable, arg, ret>>

\* localContext.flushAllDebugEvents() called on its own
CallFlushAllDebugEvents ==
  \E outcomes \in [1..Len(FlushReports(localContext)) -> PostOutcomes] :
    /\ Len(history) < MaxEvents
    /\ history' = Append(history, [eventType |-> OpFlush, args |-> 0])
    /\ posts' = posts \o FlushPosts(localContext, initOptions, outcomes)
    /\ localContext' = flushAllDebugEvents(localContext)
    /\ last' = Did(OpFlush, FALSE, "", "pending", "")
    /\ UNCHANGED <<enabled, initOptions, gets, awaiting, nEnable, arg, ret>>

Next ==
  \/ EnableAnalytics
  \/ TrackAuctionInit
  \/ TrackBidResponse
  \/ TrackBidWon
  \/ TrackAuctionEnd
  \/ TrackAuctionTimeout
  \/ TrackNoBid
  \/ TrackBidRejected
  \/ TrackBidderError
  \/ TrackAdRenderFailed
  \/ TrackAdRenderSucceeded
  \/ TrackBidderDone
  \/ BidderDoneRejects
  \/ BidderDoneResolves
  \/ AjaxSuccess
  \/ AjaxError

\* The events of the host framework, the network, and the page's configuration
Spec == Init /\ [][Next]_vars

NextCalls ==
  \/ Next
  \/ CallTriggerAllLossBidLossBeacon
  \/ CallFlushAllDebugEvents

\* The same, with the LocalContext's methods also called directly
SpecCalls == Init /\ [][NextCalls]_vars

(***************************************************************************)
(* The helper functions called on their own, on payloads of up to          *)
(* MaxFields own fields, on null and on values that are not objects.       *)
(***************************************************************************)
ClassifierFields ==
  UNION {OBJECT_TYPES_UNIQUE_FIELDS[t] : t \in DOMAIN OBJECT_TYPES_UNIQUE_FIELDS}

\* Fields in no type's unique fields
UnrelatedFields == {"id", "ortbId", "seatBidId", "foo"}

\* The value a field of a payload holds; withId: the nested ORTB bid has an id
SampleValue(f, withId) ==
  CASE f = "ortbBidResponse" ->
         (IF withId THEN [id |-> "nested-id", price |-> 1] ELSE [price |-> 1])
    [] f = "doc" -> [visibilityState |-> "visible"]
    [] f = "bid" -> [requestId |-> "b1"]
    [] f = "bidderRequest" -> [bidderRequestId |-> "r1"]
    [] f = "id" -> "wire-id"
    [] f = "ortbId" -> "alias-id"
    [] f = "seatBidId" -> "seat-bid-id"
    [] f = "bidderRequestId" -> "bidder-request-id"
    [] f = "impid" -> "imp-1"
    [] f = "requestId" -> "request-1"
    [] f = "bidId" -> "bid-1"
    [] OTHER -> "random-value"

Payload(fields, withId) == [f \in fields |-> SampleValue(f, withId)]

HelperInputs ==
  {Null} \cup {Primitive(t) : t \in {"undefined", "number", "string", "boolean"}}
  \cup {Payload(fields, TRUE) :
          fields \in {S \in SUBSET (ClassifierFields \cup UnrelatedFields) :
                        Cardinality(S) <= MaxFields}}
  \cup {Payload(fields \cup {"ortbBidResponse"}, FALSE) :
          fields \in {S \in SUBSET (ClassifierFields \cup UnrelatedFields) :
                        Cardinality(S) < MaxFields}}

InitHelpers ==
  /\ Init!1 /\ Init!2 /\ Init!3 /\ Init!4 /\ Init!5 /\ Init!6 /\ Init!7
  /\ Init!8 /\ Init!9
  /\ arg \in HelperInputs
  /\ ret = NotCalled

Classified(value, again, was) ==
  [fn |-> "determineObjType", threw |-> determineObjTypeThrows(value),
   value |-> IF determineObjTypeThrows(value) THEN NoType
             ELSE determineObjType(value),
   again |-> again, was |-> was]

\* determineObjType(arg)
CallDetermineObjType ==
  /\ ret = NotCalled
  /\ ret' = Classified(arg, FALSE, NoType)
  /\ UNCHANGED <<enabled, initOptions, localContext, gets, posts, awaiting,
                 last, history, nEnable, arg>>

\* determineObjType(arg) again, after a field no type looks at was added to
\* a payload it classified
CallDetermineObjTypeWithField ==
  \E f \in UnrelatedFields \ DOMAIN arg :
    LET extended == [g \in DOMAIN arg \cup {f} |->
                       IF g = f THEN SampleValue(f, TRUE) ELSE arg[g]]
    IN /\ ret.fn = "determineObjType" /\ ~ret.threw
       /\ arg' = extended
       /\ ret' = Classified(extended, TRUE, ret.value)
       /\ UNCHANGED <<enabled, initOptions, localContext, gets, posts,
                      awaiting, last, history, nEnable>>

\* getOrtbId(arg)
CallGetOrtbId ==
  /\ ret = NotCalled
  /\ ret' = [fn |-> "getOrtbId", threw |-> getOrtbIdThrows(arg),
             value |-> IF getOrtbIdThrows(arg) THEN "" ELSE getOrtbId(arg)]
  /\ UNCHANGED <<enabled, initOptions, localContext, gets, posts, awaiting,
                 last, history, nEnable, arg>>

\* getImpId(arg)
CallGetImpId ==
  /\ ret = NotCalled
  /\ ret' = [fn |-> "getImpId", threw |-> getImpIdThrows(arg),
             value |-> IF getImpIdThrows(arg) THEN "" ELSE getImpId(arg)]
  /\ UNCHANGED <<enabled, initOptions, localContext, gets, posts, awaiting,
                 last, history, nEnable, arg>>

\* The arguments a caller may hand to new DebugEvent: "" is a missing
\* eventType or level, 0 a missing timestamp
DebugEventArgs ==
  [eventType : {"", AUCTION_INIT, CUSTOM_EVENTS.BID_LOSS},
   level : {"", "info", "warn", "error", "fatal"},
   timestamp : {0, NotANumber, 1234}]

\* localContext.pushEventToAllBidContexts(new DebugEvent({...})): nothing is
\* pushed when the constructor throws
CallDebugEvent ==
  \E given \in DebugEventArgs :
    LET threw == DebugEventThrows(given.eventType, given.level, given.timestamp)
    IN /\ ret = NotCalled /\ IsNull(arg)
       /\ arg' = given
       /\ ret' = [fn |-> "DebugEvent", threw |-> threw]
       /\ localContext' =
            IF threw THEN localContext
            ELSE pushEventToAllBidContexts(
                   localContext,
                   DebugEvent(given.eventType, given.level, given.timestamp, ""),
                   EmptyObj)
       /\ UNCHANGED <<enabled, initOptions, gets, posts, awaiting, last,
                      history, nEnable>>

\* new BidContext({localContext, prebidOrOrtbBidResponse: arg})
CallNewBidContext ==
  /\ ret = NotCalled
  /\ ret' = [fn |-> "BidContext", threw |-> BidContextThrows(arg),
             context |-> IF BidContextThrows(arg) THEN Null
                         ELSE BidContext("", arg)]
  /\ UNCHANGED <<enabled, initOptions, localContext, gets, posts, awaiting,
                 last, history, nEnable, arg>>

\* localContext.retrieveBidContext(arg)
CallRetrieveBidContext ==
  LET threw == retrieveBidContextThrows(localContext, arg) IN
  /\ ret = NotCalled
  /\ ret' = [fn |-> "retrieveBidContext", threw |-> threw,
             error |-> IF threw THEN retrieveBidContextError(localContext, arg)
                       ELSE ""]
  /\ localContext' = IF threw THEN localContext
                     ELSE retrieveBidContext(localContext, arg)
  /\ UNCHANGED <<enabled, initOptions, gets, posts, awaiting, last, history,
                 nEnable, arg>>

NextHelpers ==
  \/ CallDebugEvent
  \/ CallNewBidContext
  \/ CallRetrieveBidContext
  \/ CallDetermineObjType
  \/ CallDetermineObjTypeWithField
  \/ CallGetOrtbId
  \/ CallGetImpId

SpecHelpers == InitHelpers /\ [][NextHelpers]_vars

\* The events, with the scheduling of the page: a settled promise resumes the
\* handler awaiting it, and the network answers or fails every request
SpecLive ==
  /\ Spec
  /\ WF_vars(BidderDoneRejects)
  /\ WF_vars(BidderDoneResolves)
  /\ WF_vars(AjaxSuccess \/ AjaxError)

(***************************************************************************)
(* Properties.                                                             *)
(***************************************************************************)
\* An entry of history
Delivery(eventType, i) == [eventType |-> eventType, args |-> i]
Call(op) == [eventType |-> op, args |-> 0]

\* The latest operation called flushAllDebugEvents and nothing has resumed since
FlushJustCalled ==
  /\ last.op \in {OpFlush, BIDDER_DONE}
  /\ last.result = "pending"

\* The reports the latest operation posted, in order
Posted == SubSeq(posts, last.postsBefore + 1, Len(posts))

\* The latest two operations are direct calls of the same method
CalledTwice(op) == last.op = op /\ last.prevOp = op

HasLossUrl(bidContext) == GetStr(bidContext.ortbBidResponse, "lurl") # ""

GetsOf(key) == {i \in DOMAIN gets : gets[i].key = key}

\* C1: over any sequence of events and direct calls the loss beacon GET is
\* issued at most once per bid context, and after two calls of
\* triggerAllLossBidLossBeacon in a row (no bid-won between them) the GET of
\* every losing context with a loss URL has been issued exactly once, none of
\* them by the second call.
C1_LossBeaconAtMostOnce ==
  /\ \A i, j \in DOMAIN gets : gets[i].key = gets[j].key => i = j
  /\ CalledTwice(OpTrigger) =>
       /\ Len(gets) = last.getsBefore
       /\ \A i \in DOMAIN localContext.bidContexts :
            LET c == localContext.bidContexts[i] IN
            (HasLossUrl(c) /\ ~c.bidWin) =>
               /\ Cardinality(GetsOf(c.key)) = 1
               /\ \A g \in GetsOf(c.key) : gets[g].url = c.ortbBidResponse.lurl

\* C1 witness: a bid response with a loss URL, then two calls in a row: one GET
C1_Witness ==
  /\ history = <<Delivery(BID_RESPONSE, 1), Call(OpTrigger), Call(OpTrigger)>>
  /\ Len(gets) = 1
  /\ localContext.bidContexts[1].lurlTriggered

\* C2 as stated: of two flushes in a row with bid contexts present, the first
\* posts one report per bid context and the second posts none.
C2_SecondFlushPostsNothing ==
  (CalledTwice(OpFlush) /\ ~isEmpty(localContext.bidContexts)) =>
    /\ last.prevPosted = Len(localContext.bidContexts)
    /\ Len(Posted) = 0

\* C2: of two flushes in a row with bid contexts present, the first posts one
\* report per bid context and the second posts one report per bid context
\* again, the same reports in the same order: there is no per-context guard.
C2_SecondFlushPostsAgain ==
  (CalledTwice(OpFlush) /\ ~isEmpty(localContext.bidContexts)) =>
    LET n == Len(localContext.bidContexts) IN
    /\ last.prevPosted = n
    /\ Len(Posted) = n
    /\ \A i \in 1..n :
         /\ Posted[i].data = posts[last.postsBefore - n + i].data
         /\ Posted[i].data.ortbId = localContext.bidContexts[i].key

\* C2 witness: a bid response, then two flushes: two reports for its context
C2_Witness ==
  /\ history = <<Delivery(BID_RESPONSE, 1), Call(OpFlush), Call(OpFlush)>>
  /\ Len(posts) = 2
  /\ posts[1].data.ortbId = "o1" /\ posts[2].data.ortbId = "o1"

\* C3: with no bid context, a warn or error event in the common log and the
\* common events not flushed yet, of two flushes in a row the first posts
\* the common report (bidWin null, the common log) and the second posts nothing.
C3_CommonReportFlushedOnce ==
  (/\ CalledTwice(OpFlush)
   /\ isEmpty(localContext.bidContexts)
   /\ \E i \in DOMAIN localContext.commonBidContextEvents :
        IsWarnOrError(localContext.commonBidContextEvents[i])
   /\ ~last.prevFlushed) =>
    /\ last.prevPosted = 1
    /\ posts[last.postsBefore].data.bidWin = "null"
    /\ posts[last.postsBefore].data.events = localContext.commonBidContextEvents
    /\ Len(Posted) = 0
    /\ localContext.commonBidContextEventsFlushed

\* C3 witness: a no-bid (warn) with no context, then two flushes: one report
C3_Witness ==
  /\ history = <<Delivery(NO_BID, 1), Call(OpFlush), Call(OpFlush)>>
  /\ isEmpty(localContext.bidContexts)
  /\ Len(posts) = 1
  /\ posts[1].data.bidWin = "null"

IsPrefix(old, new) == Len(old) <= Len(new) /\ SubSeq(new, 1, Len(old)) = old

CountEvents(events, eventType) ==
  Cardinality({i \in DOMAIN events : events[i].eventType = eventType})

\* The bid the latest event handed to retrieveBidContext
LastBid ==
  LET d == history[Len(history)] IN
  CASE d.eventType = BID_RESPONSE -> BidResponseArgs[d.args]
    [] d.eventType = BID_REJECTED -> BidRejectedArgs[d.args]
    [] d.eventType = AD_RENDER_FAILED -> GetObj(AdRenderFailedArgs[d.args], "bid")
    [] d.eventType = AD_RENDER_SUCCEEDED -> GetObj(AdRenderSucceededArgs[d.args], "bid")
    [] d.eventType = BID_WON -> BidWonArgs[d.args]

\* The latest event was bid-scoped and retrieveBidContext returned a context to it
LastResolved ==
  /\ last.op \in {BID_RESPONSE, BID_REJECTED, AD_RENDER_FAILED,
                  AD_RENDER_SUCCEEDED, BID_WON}
  /\ ~last.threw
  /\ last.op = BID_WON => isMobkoiBid(LastBid)

\* C4: the bid contexts have distinct OrtbIds; a context, once stored, stays
\* at its place with its bids and the log it had (never replaced); and when
\* a bid-scoped event has resolved an OrtbId there is exactly one context of
\* that OrtbId, the existing one if there was one (none is created then).
C4_OneBidContextPerOrtbId ==
  LET now == localContext.bidContexts
      was == last.before.bidContexts
  IN /\ \A i, j \in DOMAIN now : now[i].key = now[j].key => i = j
     /\ \A i \in DOMAIN was :
          /\ i \in DOMAIN now
          /\ now[i].key = was[i].key
          /\ now[i].ortbBidResponse = was[i].ortbBidResponse
          /\ now[i].prebidBidResponse = was[i].prebidBidResponse
          /\ IsPrefix(was[i].events, now[i].events)
     /\ LastResolved =>
          /\ Cardinality({i \in DOMAIN now : now[i].key = getOrtbId(LastBid)}) = 1
          /\ (\E i \in DOMAIN was : was[i].key = getOrtbId(LastBid)) =>
                Len(now) = Len(was)

\* C4 witness: a bid-rejected for o1 after the bid response that created the
\* context of o1: still one context, with both events in its log
C4_Witness ==
  /\ last.op = BID_REJECTED /\ LastResolved
  /\ Len(last.before.bidContexts) = 1
  /\ last.before.bidContexts[1].key = getOrtbId(LastBid)
  /\ Len(localContext.bidContexts) = 1
  /\ Len(localContext.bidContexts[1].events) = Len(last.before.bidContexts[1].events) + 1

\* The log grew by exactly one event, an error event of the latest operation
GrewByCaughtError(old, new) ==
  /\ Len(new) = Len(old) + 1
  /\ IsPrefix(old, new)
  /\ new[Len(new)].level = DEBUG_EVENT_LEVELS.error
  /\ new[Len(new)].eventType = last.op

EnabledOnce == enabled /\ nEnable = 1

ScenarioA ==
  /\ EnabledOnce
  /\ history = <<Delivery(AUCTION_INIT, 1), Delivery(BID_RESPONSE, 1),
                 Delivery(BID_WON, 1), Delivery(BIDDER_DONE, 1)>>

\* C6: with the adapter enabled once, after auction-init, the bid response of o1, the bid-won of o1 and
\* bidder-done there is one bid context, of o1, with bidWin true, one bid-won
\* event and no bidLoss event in its log, and one report posted, to
\* {endpoint}/debug, with bidWin true.
C6_ScenarioA ==
  ScenarioA =>
    /\ Len(localContext.bidContexts) = 1
    /\ localContext.bidContexts[1].key = "o1"
    /\ localContext.bidContexts[1].bidWin
    /\ CountEvents(localContext.bidContexts[1].events, BID_WON) = 1
    /\ CountEvents(localContext.bidContexts[1].events, CUSTOM_EVENTS.BID_LOSS) = 0
    /\ Len(posts) = 1
    /\ posts[1].url = initOptions.endpoint \o "/debug"
    /\ posts[1].data.bidWin = "true"
    /\ posts[1].data.ortbId = "o1"

\* C6 witness: the scenario has run and its report has reached the collector
C6_Witness ==
  /\ ScenarioA
  /\ Len(posts) = 1 /\ posts[1].state = "resolved"
  /\ last.op = BIDDER_DONE /\ last.result = "resolved"

ScenarioB ==
  history = <<Delivery(AUCTION_INIT, 1), Delivery(BID_RESPONSE, 1),
              Delivery(BIDDER_DONE, 1)>>

\* C7 as stated: after auction-init, the bid response of o1 (which has a loss
\* URL) and bidder-done with no bid-won, one GET was issued, to the loss URL,
\* the log of the context has a bidLoss event, and its report has bidWin false.
C7_ScenarioBLogsBidLoss ==
  ScenarioB =>
    /\ Len(gets) = 1
    /\ gets[1].url = localContext.bidContexts[1].ortbBidResponse.lurl
    /\ CountEvents(localContext.bidContexts[1].events, CUSTOM_EVENTS.BID_LOSS) >= 1
    /\ posts[1].data.bidWin = "false"

\* C7 witness: the scenario has run: the GET was issued and the report has
\* bidWin false, and the log of the context has no bidLoss event
C7_Witness ==
  /\ ScenarioB
  /\ Len(gets) = 1 /\ gets[1].url = "https://adserver/loss/o1"
  /\ Len(posts) = 1 /\ posts[1].data.bidWin = "false"
  /\ CountEvents(localContext.bidContexts[1].events, CUSTOM_EVENTS.BID_LOSS) = 0

\* The ad-slot bid requests of the cached bidder requests, in order
CachedBidRequests ==
  LET RECURSIVE Flat(_)
      Flat(i) == IF i > Len(localContext.bidderRequests) THEN <<>>
                 ELSE localContext.bidderRequests[i].bids \o Flat(i + 1)
  IN Flat(1)

\* The latest operation flushed with no bid context, an error event in the
\* common log, and the common events not flushed before
OrphanFlush ==
  /\ FlushJustCalled
  /\ isEmpty(localContext.bidContexts)
  /\ \E i \in DOMAIN localContext.commonBidContextEvents :
       localContext.commonBidContextEvents[i].level = DEBUG_EVENT_LEVELS.error
  /\ last.op = OpFlush => ~last.before.commonBidContextEventsFlushed

C9_OneReportPerBidContext ==
  (FlushJustCalled /\ ~isEmpty(localContext.bidContexts)) =>
    /\ Len(Posted) = Len(localContext.bidContexts)
    /\ \A i \in DOMAIN Posted :
         LET c == localContext.bidContexts[i] IN
         /\ Posted[i].data.impid = c.ortbBidResponse.impid
         /\ Posted[i].data.ortbId = c.key
         /\ Posted[i].data.bidWin = (IF c.bidWin THEN "true" ELSE "false")
         /\ Posted[i].data.events = c.events
         /\ Posted[i].data.payload = c.payload

\* C9 witness: a flush with two bid contexts and a warn event in the common
\* log posts two reports
C9_Witness ==
  /\ FlushJustCalled
  /\ Len(localContext.bidContexts) = 2
  /\ \E i \in DOMAIN localContext.commonBidContextEvents :
       IsWarnOrError(localContext.commonBidContextEvents[i])
  /\ Len(Posted) = 2

\* C10: whatever becomes of the other reports of a flush (ajax threw, the
\* request failed, it succeeded, it is in flight), the report of every bid
\* context present has been posted.
C10_EveryReportPosted ==
  FlushJustCalled =>
    \A i \in DOMAIN localContext.bidContexts :
      \E k \in DOMAIN Posted :
        /\ Posted[k].data.ortbId = localContext.bidContexts[i].key
        /\ Posted[k].data.bidWin # "null"
        /\ Posted[k].state \in {"pending", "rejected", "resolved", "failed"}

\* C10 witness: of the two reports of a flush the first was not sent (ajax
\* threw) and the second reached the collector
C10_Witness ==
  /\ FlushJustCalled
  /\ Len(localContext.bidContexts) = 2
  /\ Len(Posted) = 2
  /\ Posted[1].state = "rejected"
  /\ Posted[2].state = "resolved"

\* C11 as stated: a flush that bidder-done awaits eventually completes (the
\* handler resumes), whether its submissions succeed or fail.
C11_FlushEventuallyCompletes == (awaiting # {}) ~> (awaiting = {})

\* C11 witness: a report of the flush failed on the network, its promise is
\* never settled, and the handler is still suspended on the flush
C11_Witness ==
  \E w \in awaiting :
    /\ \E i \in w.posts : posts[i].state = "failed"
    /\ \A i \in w.posts : posts[i].state \in {"failed", "resolved"}
    /\ ~FlushRejected(w) /\ ~FlushFulfilled(w)

\* C12 as stated: right after an auction-init is handled there is no bid
\* context, and the common log holds nothing but the auction-init event.
C12_AuctionInitResets ==
  (last.op = AUCTION_INIT /\ ~last.threw) =>
    /\ isEmpty(localContext.bidContexts)
    /\ localContext.commonBidContextEvents =
         <<DebugEvent(AUCTION_INIT, DEBUG_EVENT_LEVELS.info, 7, "")>>

\* C12 witness: an auction-init handled after a bid response and its bid-won:
\* the context of o1 is still there, with its log and bidWin true
C12_Witness ==
  /\ history = <<Delivery(BID_RESPONSE, 1), Delivery(BID_WON, 1),
                 Delivery(AUCTION_INIT, 1)>>
  /\ ~last.threw
  /\ Len(localContext.bidContexts) = 1
  /\ localContext.bidContexts[1].key = "o1"
  /\ localContext.bidContexts[1].bidWin
  /\ CountEvents(localContext.bidContexts[1].events, BID_RESPONSE) = 1
  /\ CountEvents(localContext.bidContexts[1].events, AUCTION_INIT) = 1

\* The options lack publisherId or endpoint
LacksOption(options) ==
  GetStr(options, "publisherId") = "" \/ GetStr(options, "endpoint") = ""

RoutedToAll ==
  {AUCTION_INIT, AUCTION_END, AUCTION_TIMEOUT, NO_BID, BIDDER_ERROR, BID_WON}

\* The event types whose handler routes its event to the context of its bid
RoutedToOne == {BID_RESPONSE, BID_REJECTED, AD_RENDER_FAILED, AD_RENDER_SUCCEEDED}

\* The number of events the latest operation routed to the context of key
RoutedTo(key) ==
  IF last.threw THEN 1
  ELSE IF last.op \in RoutedToAll THEN 1
  ELSE IF last.op = BIDDER_DONE /\ last.result = "pending" THEN 1
  ELSE IF last.op \in RoutedToOne /\ getOrtbId(LastBid) = key THEN 1
  ELSE 0

\* The type of the event the latest operation routed to the context
RoutedType(bidContext) ==
  IF last.threw THEN last.op
  ELSE IF last.op = BID_WON
    THEN (IF bidContext.bidWin THEN BID_WON ELSE CUSTOM_EVENTS.BID_LOSS)
  ELSE last.op

\* C14: the latest operation lengthened the log of every bid context by as
\* many events as it routed to it (one or none), the routed event last; the
\* log of a context it created is the common events there were, in order,
\* followed by the routed event.  No event is dropped or appended twice.
C14_LogHoldsRoutedEvents ==
  LET now == localContext.bidContexts
      was == last.before.bidContexts
  IN \A i \in DOMAIN now :
       LET old == IF i \in DOMAIN was THEN was[i].events
                  ELSE last.before.commonBidContextEvents
           k == RoutedTo(now[i].key)
       IN /\ Len(now[i].events) = Len(old) + k
          /\ IsPrefix(old, now[i].events)
          /\ k = 1 => now[i].events[Len(old) + 1].eventType = RoutedType(now[i])
          /\ i \notin DOMAIN was => k = 1

\* C14 witness: a bid response created the context of o1 after two common
\* events: its log is the two common events and the bid response
C14_Witness ==
  /\ last.op = BID_RESPONSE /\ ~last.threw
  /\ isEmpty(last.before.bidContexts)
  /\ Len(last.before.commonBidContextEvents) = 2
  /\ Len(localContext.bidContexts) = 1
  /\ Len(localContext.bidContexts[1].events) = 3
  /\ localContext.bidContexts[1].events[3].eventType = BID_RESPONSE

\* C15: the log of every bid context and the common log before the latest
\* operation are prefixes of the logs after it: entries are only appended.
C15_LogsAppendOnly ==
  /\ IsPrefix(last.before.commonBidContextEvents,
              localContext.commonBidContextEvents)
  /\ \A i \in DOMAIN last.before.bidContexts :
       /\ i \in DOMAIN localContext.bidContexts
       /\ IsPrefix(last.before.bidContexts[i].events,
                   localContext.bidContexts[i].events)

\* C15 witness: an event was appended to a common log that was flushed and
\* to the log of a context that had events
C15_Witness ==
  /\ last.before.commonBidContextEventsFlushed
  /\ Len(last.before.commonBidContextEvents) >= 1
  /\ Len(localContext.commonBidContextEvents) =
       Len(last.before.commonBidContextEvents) + 1
  /\ Len(last.before.bidContexts) = 1
  /\ Len(localContext.bidContexts[1].events) =
       Len(last.before.bidContexts[1].events) + 1

\* C16: across the latest operation a bidWin or lurlTriggered that was true
\* is still true; a context it created has lurlTriggered false, and bidWin
\* false unless the operation was its bid-won; and bidWin has become true
\* only in the handling of a bid-won of a Mobkoi bid with the OrtbId of the
\* context.
C16_FlagsOneWay ==
  LET now == localContext.bidContexts
      was == last.before.bidContexts
  IN \A i \in DOMAIN now :
       LET wonBefore == i \in DOMAIN was /\ was[i].bidWin IN
       /\ i \in DOMAIN was =>
            /\ was[i].bidWin => now[i].bidWin
            /\ was[i].lurlTriggered => now[i].lurlTriggered
       /\ i \notin DOMAIN was => ~now[i].lurlTriggered
       /\ (now[i].bidWin /\ ~wonBefore) =>
            /\ last.op = BID_WON
            /\ isMobkoiBid(LastBid)
            /\ getOrtbId(LastBid) = now[i].key

\* C16 witness: the context of o1 had its loss beacon sent when another bid
\* won and then won itself; a later event leaves both flags true
C16_Witness ==
  /\ history = <<Delivery(BID_RESPONSE, 1), Delivery(BID_WON, 2),
                 Delivery(BID_WON, 1), Delivery(AUCTION_END, 1)>>
  /\ last.before.bidContexts[1].bidWin
  /\ last.before.bidContexts[1].lurlTriggered
  /\ localContext.bidContexts[1].bidWin
  /\ localContext.bidContexts[1].lurlTriggered

(***************************************************************************)
(* The helper functions                                                    *)
(***************************************************************************)
IsObject(v) == ~IsNull(v) /\ ~IsPrimitive(v)

Kinds == {OBJECT_TYPES_VALUES[i] : i \in 1..Len(OBJECT_TYPES_VALUES)}

WholeSetPresent(kind, v) == OBJECT_TYPES_UNIQUE_FIELDS[kind] \subseteq DOMAIN v

\* The kind is the first one, in declaration order, whose set is on v
FirstPresent(i, v) ==
  /\ WholeSetPresent(OBJECT_TYPES_VALUES[i], v)
  /\ \A j \in 1..(i - 1) : ~WholeSetPresent(OBJECT_TYPES_VALUES[j], v)

ResolvedTo(fn, value) == ret.fn = fn /\ ~ret.threw /\ ret.value = value

\* C17: determineObjType of a payload whose own fields are exactly the
\* unique fields of a kind returns that kind, and of any payload returns the
\* first kind, in declaration order, whose unique fields are all own fields
\* of the payload.
C17_FirstKindWithWholeSet ==
  (ret.fn = "determineObjType" /\ IsObject(arg)) =>
    /\ \A kind \in Kinds :
         DOMAIN arg = OBJECT_TYPES_UNIQUE_FIELDS[kind] =>
           ResolvedTo("determineObjType", kind)
    /\ \A i \in 1..Len(OBJECT_TYPES_VALUES) :
         FirstPresent(i, arg) =>
           ResolvedTo("determineObjType", OBJECT_TYPES_VALUES[i])

\* C17 witness: a payload with exactly requestId and ortbBidResponse, on
\* which the sets of two kinds are present, came back as the earlier kind
C17_Witness ==
  /\ DOMAIN arg = {"requestId", "ortbBidResponse"}
  /\ WholeSetPresent(OBJECT_TYPES.PREBID_RESPONSE_NOT_INTERPRETED, arg)
  /\ ResolvedTo("determineObjType", OBJECT_TYPES.PREBID_RESPONSE_INTERPRETED)

\* C18: determineObjType throws, and returns no kind, exactly when its input
\* is not an object, is null, or is an object on which the whole unique-field
\* set of no kind is present.
C18_NoDefaultKind ==
  ret.fn = "determineObjType" =>
    /\ ret.threw <=> (\/ ~IsObject(arg)
                      \/ \A kind \in Kinds : ~WholeSetPresent(kind, arg))
    /\ ret.threw => ret.value = NoType
    /\ ~ret.threw => ret.value \in Kinds

\* C18 witness: determineObjType threw for an object that holds one of the
\* two unique fields of a kind and no whole set
C18_Witness ==
  /\ ret.fn = "determineObjType" /\ ret.threw
  /\ IsObject(arg)
  /\ DOMAIN arg = {"adm", "foo"}

\* C18 witness of the inputs that are not objects: determineObjType threw for
\* a number
C18_WitnessNumber ==
  /\ ret.fn = "determineObjType" /\ ret.threw
  /\ arg = Primitive("number")

\* C19: determineObjType of a payload it classified, called again after
\* fields in no kind's unique-field set were added, returns the same kind.
C19_UnrelatedFieldsIgnored ==
  (ret.fn = "determineObjType" /\ ret.again) =>
    ResolvedTo("determineObjType", ret.was)

\* C19 witness: a payload of the unique fields of the raw wire bid was
\* classified again with id and foo added, as a raw wire bid
C19_Witness ==
  /\ ret.fn = "determineObjType" /\ ret.again
  /\ DOMAIN arg = {"adm", "impid", "id", "foo"}
  /\ ret.was = OBJECT_TYPES.ORTB_BID
  /\ ret.value = OBJECT_TYPES.ORTB_BID

HasId(v) == GetStr(v, "id") # ""

IsWireBid(v) ==
  /\ ~determineObjTypeThrows(v)
  /\ determineObjType(v) = OBJECT_TYPES.ORTB_BID

\* What getOrtbId finds after the own id: the alias, then the nested id
AliasOrNested(v) ==
  IF GetStr(v, "ortbId") # "" THEN ResolvedTo("getOrtbId", v.ortbId)
  ELSE IF GetStr(GetObj(v, "ortbBidResponse"), "id") # ""
         THEN ResolvedTo("getOrtbId", v.ortbBidResponse.id)
         ELSE ret.fn = "getOrtbId" /\ ret.threw

\* C20 as stated: getOrtbId returns the own id only of a payload classified
\* as a raw wire bid; otherwise the ortbId alias, otherwise the id of the
\* nested ortbBidResponse.
C20_OwnIdOnlyOfWireBid ==
  ret.fn = "getOrtbId" =>
    IF HasId(arg) /\ IsWireBid(arg) THEN ResolvedTo("getOrtbId", arg.id)
    ELSE AliasOrNested(arg)

\* C20: getOrtbId returns the own id of the payload when it has one,
\* whatever the kind of the payload; otherwise the ortbId alias, otherwise
\* the id of the nested ortbBidResponse, otherwise it throws.
C20_OwnIdThenAliasThenNested ==
  ret.fn = "getOrtbId" =>
    IF HasId(arg) THEN ResolvedTo("getOrtbId", arg.id)
    ELSE AliasOrNested(arg)

\* C20 witness: a payload classified as a response that was not interpreted,
\* with an own id and an alias, was resolved to its own id
C20_Witness ==
  /\ DOMAIN arg = {"id", "ortbId", "requestId"}
  /\ ~IsWireBid(arg)
  /\ ResolvedTo("getOrtbId", arg.id)
  /\ arg.id # arg.ortbId

Has(v, field) == IsObject(v) /\ field \in DOMAIN v

OrtbIdAliases == {"bidderRequestId", "seatBidId", "ortbId", "id"}

\* C21: getOrtbId of a payload that carries bidderRequestId, seatBidId,
\* ortbId or id returns the value of one of those it carries, and of a
\* payload with none of them (and no nested ortbBidResponse) throws.
C21_AnyAliasResolves ==
  ret.fn = "getOrtbId" =>
    IF \E alias \in OrtbIdAliases : Has(arg, alias)
      THEN /\ ~ret.threw
           /\ \E alias \in OrtbIdAliases :
                Has(arg, alias) /\ ret.value = arg[alias]
      ELSE ~Has(arg, "ortbBidResponse") => ret.threw

\* C21 witness: getOrtbId threw for a payload whose only identifier is
\* bidderRequestId
C21_Witness ==
  /\ ret.fn = "getOrtbId" /\ ret.threw
  /\ DOMAIN arg = {"bidderRequestId"}

\* C22: getImpId never throws; it returns impid when the payload has one,
\* otherwise requestId, otherwise bidId, and null ("") when the payload has
\* none of them, is null or is not an object.
C22_ImpIdPriority ==
  ret.fn = "getImpId" =>
    /\ ~ret.threw
    /\ ret.value = (IF Has(arg, "impid") THEN arg.impid
                    ELSE IF Has(arg, "requestId") THEN arg.requestId
                    ELSE IF Has(arg, "bidId") THEN arg.bidId
                    ELSE "")

\* C22 witness: a payload with impid, requestId and bidId resolved to impid
C22_Witness ==
  /\ DOMAIN arg = {"impid", "requestId", "bidId"}
  /\ ret.fn = "getImpId" /\ ~ret.threw
  /\ ret.value = arg.impid
  /\ arg.impid # arg.requestId /\ arg.requestId # arg.bidId

\* C22 witness of the missing payload: getImpId(null) returned null
C22_WitnessNull ==
  /\ IsNull(arg)
  /\ ret.fn = "getImpId" /\ ~ret.threw /\ ret.value = ""

\* Every event of every log of the LocalContext
StoredEvents(lc) ==
  {lc.commonBidContextEvents[i] : i \in DOMAIN lc.commonBidContextEvents}
  \cup UNION {{lc.bidContexts[c].events[i] : i \in DOMAIN lc.bidContexts[c].events} :
                c \in DOMAIN lc.bidContexts}

WellFormed(event) ==
  /\ event.eventType # ""
  /\ event.level \in {"info", "warn", "error"}
  /\ event.timestamp > 0

C23_WitnessStored ==
  /\ ret.fn = "DebugEvent" /\ ~ret.threw
  /\ arg.timestamp = 0
  /\ Len(localContext.commonBidContextEvents) = 1

\* v is an object that classifies as the kind
IsOfKind(v, kind) ==
  /\ IsObject(v)
  /\ \E i \in 1..Len(OBJECT_TYPES_VALUES) :
       OBJECT_TYPES_VALUES[i] = kind /\ FirstPresent(i, v)

IsBidSeed(v) ==
  IsOfKind(v, "ortb_bid") \/ IsOfKind(v, "prebid_bid_interpreted")

\* The response the context holds is a seed the constructor accepts
SeededFromBid(ctx) ==
  IF IsNull(ctx.prebidBidResponse) THEN IsOfKind(ctx.ortbBidResponse, "ortb_bid")
  ELSE IsOfKind(ctx.prebidBidResponse, "prebid_bid_interpreted")

\* C24: new BidContext throws exactly when its payload is missing, is not an
\* object or classifies as neither ortb_bid nor prebid_bid_interpreted;
\* retrieveBidContext stores a context only for a payload of these two
\* kinds, and every stored context holds the response of such a kind.
C24_SeedIsBid ==
  /\ ret.fn = "BidContext" =>
       /\ ret.threw <=> ~IsBidSeed(arg)
       /\ ~ret.threw => SeededFromBid(ret.context)
  /\ (ret.fn = "retrieveBidContext" /\ ~IsBidSeed(arg)) =>
       ret.threw /\ isEmpty(localContext.bidContexts)
  /\ \A c \in DOMAIN localContext.bidContexts :
       SeededFromBid(localContext.bidContexts[c])

\* C24 witness: the constructor refused a response that was not interpreted
C24_Witness ==
  /\ ret.fn = "BidContext" /\ ret.threw
  /\ IsOfKind(arg, "prebid_bid_not_interpreted")

\* C24 witness of the accepted seed: retrieveBidContext stored a context for
\* an interpreted response
C24_WitnessStored ==
  /\ ret.fn = "retrieveBidContext" /\ ~ret.threw
  /\ IsOfKind(arg, "prebid_bid_interpreted")
  /\ Len(localContext.bidContexts) = 1
  /\ localContext.bidContexts[1].prebidBidResponse = arg

\* The latest operation was a handler that returned after one call of
\* pushEventToAllBidContexts and nothing else that changes a log
RoutedOnceToAll ==
  /\ last.op \in {AUCTION_INIT, AUCTION_END, AUCTION_TIMEOUT, NO_BID, BIDDER_ERROR}
  /\ ~last.threw

\* The sequence is the other one with one event of the latest operation's
\* type appended
GrewByRoutedEvent(was, now) ==
  /\ Len(now) = Len(was) + 1
  /\ SubSeq(now, 1, Len(was)) = was
  /\ now[Len(now)].eventType = last.op

SameContexts ==
  /\ Len(localContext.bidContexts) = Len(last.before.bidContexts)
  /\ \A i \in DOMAIN localContext.bidContexts :
       localContext.bidContexts[i].key = last.before.bidContexts[i].key

ForwardedToEveryContext ==
  \A i \in DOMAIN localContext.bidContexts :
    GrewByRoutedEvent(last.before.bidContexts[i].events,
                      localContext.bidContexts[i].events)

\* C25 as stated: pushEventToAllBidContexts creates no context; with no
\* context it appends the event to the common log and resets the flushed
\* flag; with a context it forwards the event to every context and leaves
\* the common log and the flushed flag as they were.
C25_CommonLogOnlyWithoutContexts ==
  RoutedOnceToAll =>
    /\ SameContexts
    /\ IF isEmpty(last.before.bidContexts)
         THEN /\ GrewByRoutedEvent(last.before.commonBidContextEvents,
                                   localContext.commonBidContextEvents)
              /\ ~localContext.commonBidContextEventsFlushed
         ELSE /\ ForwardedToEveryContext
              /\ localContext.commonBidContextEvents =
                   last.before.commonBidContextEvents
              /\ localContext.commonBidContextEventsFlushed =
                   last.before.commonBidContextEventsFlushed

\* C25: pushEventToAllBidContexts creates no context and always appends the
\* event to the common log; with no context it resets the flushed flag; with
\* a context it forwards the same event to every context and leaves the
\* flushed flag as it was.
C25_CommonLogAlways ==
  RoutedOnceToAll =>
    /\ SameContexts
    /\ GrewByRoutedEvent(last.before.commonBidContextEvents,
                         localContext.commonBidContextEvents)
    /\ IF isEmpty(last.before.bidContexts)
         THEN ~localContext.commonBidContextEventsFlushed
         ELSE /\ ForwardedToEveryContext
              /\ \A i \in DOMAIN localContext.bidContexts :
                   localContext.bidContexts[i].events[
                       Len(localContext.bidContexts[i].events)] =
                     localContext.commonBidContextEvents[
                       Len(localContext.commonBidContextEvents)]
              /\ localContext.commonBidContextEventsFlushed =
                   last.before.commonBidContextEventsFlushed

\* C25 witness: with two contexts and the common log flushed, an auction end
\* was forwarded to both and appended to the common log, the flag still set
C25_Witness ==
  /\ RoutedOnceToAll
  /\ Len(last.before.bidContexts) = 2
  /\ ForwardedToEveryContext
  /\ Len(localContext.commonBidContextEvents) =
       Len(last.before.commonBidContextEvents) + 1

\* C25 witness of the flag: a context exists, the flag was set and is set
C25_WitnessFlushed ==
  /\ RoutedOnceToAll
  /\ ~isEmpty(last.before.bidContexts)
  /\ last.before.commonBidContextEventsFlushed
  /\ localContext.commonBidContextEventsFlushed

\* The latest operation was the handler of an event that carries a bid, and
\* it returned
BidEventHandled ==
  /\ last.op \in RoutedToOne \cup {BID_WON}
  /\ ~last.threw

\* The context is of another impression than the bid of the latest event
OfOtherImpression(bidContext) == BidContext_impid(bidContext) # getImpId(LastBid)

\* C26 as stated: the handler of an event that carries a bid leaves the log
\* of every context of another impression than the bid's as it was.
C26_OnlyMatchingImpression ==
  BidEventHandled =>
    \A i \in DOMAIN last.before.bidContexts :
      OfOtherImpression(localContext.bidContexts[i]) =>
        localContext.bidContexts[i].events = last.before.bidContexts[i].events

\* C26: pushEvent appends every event it is given, whatever the impression:
\* the handler of bid-won lengthens the log of every context by one event
\* (bidWon or bidLoss), contexts of other impressions included, and the
\* handlers of the other events that carry a bid lengthen the log of the
\* context of the bid's OrtbId by one and no other log.
C26_AppendsWhateverImpression ==
  BidEventHandled =>
    \A i \in DOMAIN last.before.bidContexts :
      LET was == last.before.bidContexts[i].events
          now == localContext.bidContexts[i].events
      IN IF last.op = BID_WON
           THEN /\ Len(now) = Len(was) + 1
                /\ SubSeq(now, 1, Len(was)) = was
                /\ now[Len(now)].eventType \in {BID_WON, CUSTOM_EVENTS.BID_LOSS}
         ELSE IF localContext.bidContexts[i].key = getOrtbId(LastBid)
           THEN GrewByRoutedEvent(was, now)
         ELSE now = was

\* C26 witness: the bid-won of the bid of impression b1 appended an event to
\* the log of the context of impression b2
C26_Witness ==
  /\ BidEventHandled /\ last.op = BID_WON
  /\ getImpId(LastBid) = "b1"
  /\ \E i \in DOMAIN last.before.bidContexts :
       /\ BidContext_impid(localContext.bidContexts[i]) = "b2"
       /\ Len(localContext.bidContexts[i].events) =
            Len(last.before.bidContexts[i].events) + 1

\* The positions of the contexts the latest operation created
CreatedContexts == DOMAIN localContext.bidContexts \ DOMAIN last.before.bidContexts

\* C27: the log of a context the latest operation created is the k events the
\* common log held before the operation, in the same order, followed by the
\* one event the operation appended.
C27_NewContextStartsWithCommonEvents ==
  \A i \in CreatedContexts :
    LET k == Len(last.before.commonBidContextEvents)
        events == localContext.bidContexts[i].events
    IN /\ Len(events) = k + 1
       /\ SubSeq(events, 1, k) = last.before.commonBidContextEvents
       /\ events[k + 1].eventType = RoutedType(localContext.bidContexts[i])

\* C27 witness: after auctionInit and auctionTimeout were logged to the common
\* log, a bidResponse created a context whose log is those two and bidResponse
C27_Witness ==
  /\ last.op = BID_RESPONSE /\ ~last.threw
  /\ CreatedContexts = {1}
  /\ Len(last.before.commonBidContextEvents) = 2
  /\ last.before.commonBidContextEvents[1].eventType = AUCTION_INIT
  /\ last.before.commonBidContextEvents[2].eventType = AUCTION_TIMEOUT
  /\ Len(localContext.bidContexts[1].events) = 3
  /\ localContext.bidContexts[1].events[3].eventType = BID_RESPONSE

\* The positions in gets of the GETs the latest operation issued
NewGets == (last.getsBefore + 1)..Len(gets)

\* C28: every GET the latest operation issued is the loss URL of a context
\* that holds one, has not won and had its flag unset before the operation,
\* and the flag is set as soon as the operation is over, whatever the network
\* does; and the handler of the bid-won of a Mobkoi bid issues no GET for the
\* context of that bid.
C28_LossBeaconOnlyForLosers ==
  /\ \A g \in NewGets :
       \E i \in DOMAIN localContext.bidContexts :
         LET c == localContext.bidContexts[i] IN
         /\ c.key = gets[g].key
         /\ GetStr(c.ortbBidResponse, "lurl") # ""
         /\ gets[g].url = c.ortbBidResponse.lurl
         /\ ~c.bidWin
         /\ i \in DOMAIN last.before.bidContexts =>
              ~last.before.bidContexts[i].lurlTriggered
         /\ c.lurlTriggered
  /\ (last.op = BID_WON /\ isMobkoiBid(LastBid)) =>
       \A g \in NewGets : gets[g].key # getOrtbId(LastBid)

\* C28 witness: the bid-won of another bidder's bid issued the GET of the
\* loss URL of o1, whose flag was unset and is set
C28_Witness ==
  /\ last.op = BID_WON /\ ~isMobkoiBid(LastBid)
  /\ NewGets # {}
  /\ \A g \in NewGets : gets[g].key = "o1"
  /\ ~last.before.bidContexts[1].lurlTriggered
  /\ localContext.bidContexts[1].lurlTriggered

\* C28 witness of the winner: the bid-won of o1, which holds a loss URL,
\* marked its context and issued no GET
C28_WitnessWinner ==
  /\ last.op = BID_WON /\ isMobkoiBid(LastBid) /\ ~last.threw
  /\ getOrtbId(LastBid) = "o1"
  /\ NewGets = {}
  /\ \E i \in DOMAIN localContext.bidContexts :
       /\ localContext.bidContexts[i].key = "o1"
       /\ localContext.bidContexts[i].bidWin
       /\ ~localContext.bidContexts[i].lurlTriggered

\* The latest operation was the handler of an event that carries a bid, and
\* retrieveBidContext threw in it: no OrtbId, or a bid no context is built from
CreationFailed ==
  /\ last.op \in RoutedToOne \cup {BID_WON}
  /\ last.threw
  /\ last.thrown \in {ErrOrtbId, ErrBidContext}

\* C29: when retrieveBidContext has thrown, the contexts are those there were
\* before, each with the responses and the bidWin and lurlTriggered it had;
\* the log of each grew by the one error event of the catch block, no GET was
\* issued, no report was posted and the adapter still takes events.
C29_FailedCreationStoresNothing ==
  CreationFailed =>
    /\ SameContexts
    /\ \A i \in DOMAIN localContext.bidContexts :
         LET was == last.before.bidContexts[i]
             now == localContext.bidContexts[i]
         IN /\ now.bidWin = was.bidWin
            /\ now.lurlTriggered = was.lurlTriggered
            /\ now.ortbBidResponse = was.ortbBidResponse
            /\ now.prebidBidResponse = was.prebidBidResponse
            /\ GrewByRoutedEvent(was.events, now.events)
            /\ now.events[Len(now.events)].level = "error"
    /\ NewGets = {}
    /\ Len(posts) = last.postsBefore
    /\ localContext.auction = last.before.auction
    /\ enabled

\* C29 witness: with the contexts of o1 and o2 stored, o1 the winner, a
\* bidRejected without an OrtbId failed and changed neither
C29_Witness ==
  /\ CreationFailed /\ last.thrown = ErrOrtbId
  /\ Len(localContext.bidContexts) = 2
  /\ localContext.bidContexts[1].bidWin
  /\ last.before.bidContexts[1].bidWin

\* C29 witness of the wrong kind: the render event of a bid that was not
\* interpreted failed while another context existed
C29_WitnessWrongKind ==
  /\ CreationFailed /\ last.thrown = ErrBidContext
  /\ Len(localContext.bidContexts) = 1

\* C29 witness of the events that follow: after the failed bidRejected a
\* bidResponse created the context of o1, whose log starts with the error event
C29_WitnessNextEvent ==
  /\ history = <<Delivery(BID_REJECTED, 2), Delivery(BID_RESPONSE, 1)>>
  /\ ~last.threw
  /\ Len(localContext.bidContexts) = 1
  /\ Len(localContext.bidContexts[1].events) = 2
  /\ localContext.bidContexts[1].events[1].level = "error"
  /\ localContext.bidContexts[1].events[2].eventType = BID_RESPONSE

StrictSubset(S, T) == S \subseteq T /\ S # T

\* C30: of two kinds whose unique-field sets are in a strict subset relation
\* the one with the larger set is declared first; every kind is returned for
\* the payload of exactly its unique fields; and determineObjType never
\* returns a kind while the larger set of another kind is on the payload.
C30_SpecificKindsFirst ==
  /\ \A i, j \in 1..Len(OBJECT_TYPES_VALUES) :
       StrictSubset(OBJECT_TYPES_UNIQUE_FIELDS[OBJECT_TYPES_VALUES[i]],
                    OBJECT_TYPES_UNIQUE_FIELDS[OBJECT_TYPES_VALUES[j]]) => j < i
  /\ \A kind \in DOMAIN OBJECT_TYPES_UNIQUE_FIELDS :
       LET payload == Payload(OBJECT_TYPES_UNIQUE_FIELDS[kind], TRUE) IN
       ~determineObjTypeThrows(payload) /\ determineObjType(payload) = kind
  /\ (ret.fn = "determineObjType" /\ ~ret.threw) =>
       \A other \in DOMAIN OBJECT_TYPES_UNIQUE_FIELDS :
         WholeSetPresent(other, arg) =>
           ~StrictSubset(OBJECT_TYPES_UNIQUE_FIELDS[ret.value],
                         OBJECT_TYPES_UNIQUE_FIELDS[other])

\* C30 witness: a payload with requestId and without ortbBidResponse came
\* back as the kind with the smaller set, a response that was not interpreted
C30_Witness ==
  /\ ret.fn = "determineObjType" /\ ~ret.threw
  /\ "requestId" \in DOMAIN arg /\ "ortbBidResponse" \notin DOMAIN arg
  /\ ret.value = "prebid_bid_not_interpreted"
  /\ StrictSubset(OBJECT_TYPES_UNIQUE_FIELDS["prebid_bid_not_interpreted"],
                  OBJECT_TYPES_UNIQUE_FIELDS["prebid_bid_interpreted"])

\* A submission made before the latest operation had not settled when the
\* operation ran: it is pending still, or it failed and never settles
InFlightBefore ==
  \E i \in 1..last.postsBefore : posts[i].state \in {"pending", "failed"}

\* C31: whatever is in flight, the adapter takes the next event (an
\* auctionEnd) at once; an event handled while a submission
\* was in flight has been appended to the common log and its handler is over;
\* only bidder-done (and a direct flush) is ever left waiting, and a
\* suspended bidder-done handler waits for the submissions of its own flush.
C31_RoutingNeverWaits ==
  /\ (enabled /\ Len(history) < MaxEvents) => ENABLED TrackAuctionEnd
  /\ (RoutedOnceToAll /\ InFlightBefore) =>
       /\ last.result = "resolved"
       /\ GrewByRoutedEvent(last.before.commonBidContextEvents,
                            localContext.commonBidContextEvents)
  /\ last.result = "pending" => last.op \in {BIDDER_DONE, OpFlush}
  /\ \A w \in awaiting : w.posts \subseteq DOMAIN posts
  /\ \A w, v \in awaiting : w # v => w.posts \cap v.posts = {}

\* C31 witness: a report of the bidder-done failed on the network and its
\* handler is suspended for good; the auctionEnd delivered afterwards was
\* appended to the log
C31_Witness ==
  /\ awaiting # {}
  /\ \E i \in DOMAIN posts : posts[i].state = "failed"
  /\ InFlightBefore
  /\ last.op = AUCTION_END /\ last.result = "resolved"
  /\ history[Len(history) - 1].eventType = BIDDER_DONE

\* The common log holds an event of level warn or error
CommonLogHasProblem ==
  \E i \in DOMAIN localContext.commonBidContextEvents :
    localContext.commonBidContextEvents[i].level \in {"warn", "error"}

\* C32: a flush with no bid context and a common log that is empty or holds
\* info events only posts nothing, and leaves the flushed flag as it was.
C32_NoReportWithoutProblem ==
  (FlushJustCalled /\ isEmpty(localContext.bidContexts) /\ ~CommonLogHasProblem) =>
    /\ Len(Posted) = 0
    /\ last.op = OpFlush =>
         localContext.commonBidContextEventsFlushed =
           last.before.commonBidContextEventsFlushed

\* C32 witness: auctionInit and bidderDone, info events both, with no context:
\* the flush of the bidderDone posted nothing
C32_Witness ==
  /\ FlushJustCalled /\ last.op = BIDDER_DONE
  /\ isEmpty(localContext.bidContexts)
  /\ Len(localContext.commonBidContextEvents) = 2
  /\ ~CommonLogHasProblem
  /\ Len(posts) = 0

\* C32 witness of the empty log: a direct flush before any event
C32_WitnessEmpty ==
  /\ FlushJustCalled /\ last.op = OpFlush
  /\ Len(localContext.commonBidContextEvents) = 0
  /\ Len(posts) = 0

\* C33: when a bidder-done has started its flush, every context that holds a
\* loss URL and has not won has its lurlTriggered set; reports are posted by
\* the handler of bidder-done only, and one flush posts at most one report
\* per context and one for the common log.
C33_BeaconsBeforeReports ==
  /\ (last.op = BIDDER_DONE /\ last.result = "pending") =>
       \A i \in DOMAIN localContext.bidContexts :
         LET c == localContext.bidContexts[i] IN
         (HasLossUrl(c) /\ ~c.bidWin) => c.lurlTriggered
  /\ Len(posts) > last.postsBefore => last.op = BIDDER_DONE
  /\ \A i, j \in DOMAIN Posted :
       (/\ Posted[i].data.ortbId = Posted[j].data.ortbId
        /\ Posted[i].data.bidWin = "null" <=> Posted[j].data.bidWin = "null") => i = j
  /\ Len(posts) <= CountEvents(history, BIDDER_DONE)
                     * (Len(localContext.bidContexts) + 1)

\* C33 witness: the bidder-done sent the loss beacon of o1 and posted its report
C33_Witness ==
  /\ last.op = BIDDER_DONE /\ last.result = "pending"
  /\ NewGets # {}
  /\ Len(Posted) = 1
  /\ Posted[1].data.ortbId = "o1"
  /\ localContext.bidContexts[1].lurlTriggered
  /\ ~last.before.bidContexts[1].lurlTriggered

\* C34: no bid context has both bidWin and lurlTriggered set.
C34_NeverWinnerAfterLossBeacon ==
  \A i \in DOMAIN localContext.bidContexts :
    ~(localContext.bidContexts[i].bidWin /\ localContext.bidContexts[i].lurlTriggered)

\* C34 witness: the context of o1, whose loss beacon was sent at the bid-won
\* of another bidder's bid, was marked the winner by its own bid-won
C34_Witness ==
  /\ last.op = BID_WON /\ ~last.threw
  /\ getOrtbId(LastBid) = "o1"
  /\ \E i \in DOMAIN last.before.bidContexts :
       /\ localContext.bidContexts[i].key = "o1"
       /\ last.before.bidContexts[i].lurlTriggered
       /\ ~last.before.bidContexts[i].bidWin
       /\ localContext.bidContexts[i].bidWin
       /\ \E g \in DOMAIN gets : gets[g].key = "o1"

\* The reports of the common events among the requests made so far
CommonReportsPosted == {i \in DOMAIN posts : posts[i].data.bidWin = "null"}

\* C35: the events of a submitted common report are not submitted again by a
\* later common report.
C35_CommonEventsReportedOnce ==
  \A i, j \in CommonReportsPosted :
    i < j => ~IsPrefix(posts[i].data.events, posts[j].data.events)

\* C35 witness: with no bid context, a second flush has posted the already
\* reported common events again together with the event routed in between
C35_Witness ==
  /\ isEmpty(localContext.bidContexts)
  /\ Len(Posted) = 1
  /\ Len(posts) \in CommonReportsPosted
  /\ \E i \in CommonReportsPosted :
       /\ i < Len(posts)
       /\ IsPrefix(posts[i].data.events, posts[Len(posts)].data.events)
       /\ Len(posts[i].data.events) < Len(posts[Len(posts)].data.events)

C37_ReportFixedAtSubmission ==
  [][/\ Len(posts') >= Len(posts)
     /\ \A i \in DOMAIN posts :
          /\ posts'[i].url = posts[i].url
          /\ posts'[i].data = posts[i].data
     /\ (\E i \in DOMAIN posts : posts'[i].state # posts[i].state)
          => localContext' = localContext
     /\ (awaiting' # awaiting /\ last'.result = "resolved")
          => localContext' = localContext]_vars

\* C37 witness: the report of a bid context was in flight when an
\* auction-init was handled; it then completed and the suspended bidder-done
\* handler resumed, the report still holding the log as it was at the flush
C37_Witness ==
  /\ last.op = BIDDER_DONE /\ last.result = "resolved"
  /\ last.prevOp = AUCTION_INIT
  /\ awaiting = {}
  /\ \E i \in DOMAIN posts, c \in DOMAIN localContext.bidContexts :
       /\ posts[i].state = "resolved"
       /\ posts[i].data.ortbId = localContext.bidContexts[c].key
       /\ Len(posts[i].data.events) < Len(localContext.bidContexts[c].events)
       /\ IsPrefix(posts[i].data.events, localContext.bidContexts[c].events)

\* The object holds, at any depth, a field ad or adm that was not replaced by
\* the placeholder of omitRecursive
RECURSIVE HoldsMarkup(_)
HoldsMarkup(obj) ==
  \E k \in DOMAIN obj :
    \/ k \in COMMON_FIELDS_TO_OMIT /\ obj[k] # "OMITTED"
    \/ k \in NestedObjectFields /\ HoldsMarkup(obj[k])
    \/ k \in ArrayFields /\ \E i \in DOMAIN obj[k] : HoldsMarkup(obj[k][i])

\* C38: no payload of a bid context, no common payload and no report body
\* holds the creative markup (a field ad or adm) of an event payload.
C38_NoCreativeMarkup ==
  /\ ~HoldsMarkup(localContext.commonPayload)
  /\ \A i \in DOMAIN localContext.bidContexts :
       ~HoldsMarkup(localContext.bidContexts[i].payload)
  /\ \A i \in DOMAIN posts : ~HoldsMarkup(posts[i].data.payload)

\* C38 witness: the bid-won of another bidder's bid, a response that is not
\* interpreted, left its whole payload with its ad in the payload of the
\* Mobkoi bid context
C38_Witness ==
  /\ last.op = BID_WON /\ ~last.threw
  /\ IsOfKind(LastBid, "prebid_bid_not_interpreted")
  /\ Has(LastBid, "ad")
  /\ \E i \in DOMAIN localContext.bidContexts :
       LET p == localContext.bidContexts[i].payload IN
       /\ ~HoldsMarkup(last.before.bidContexts[i].payload)
       /\ "prebid_bid_not_interpreted" \in DOMAIN p
       /\ p["prebid_bid_not_interpreted"].eventArgs = LastBid

\* C39: a bid-response event whose payload has a requestId and an
\* ortbBidResponse is classified as an interpreted response, whatever other
\* fields it carries, and is handled without error, leaving a bid context
\* under the payload's ORTB ID.
C39_InterpretedResponseYieldsContext ==
  (/\ last.op = BID_RESPONSE
   /\ Has(LastBid, "requestId") /\ Has(LastBid, "ortbBidResponse")) =>
    /\ IsOfKind(LastBid, OBJECT_TYPES.PREBID_RESPONSE_INTERPRETED)
    /\ ~last.threw
    /\ \E i \in DOMAIN localContext.bidContexts :
         localContext.bidContexts[i].key = getOrtbId(LastBid)

\* C39 witness: the bid response that also carries the bidderRequestId was
\* classified as a bidder request; the handler threw and stored no context
C39_Witness ==
  /\ last.op = BID_RESPONSE /\ last.threw
  /\ Has(LastBid, "requestId") /\ Has(LastBid, "ortbBidResponse")
  /\ Has(LastBid, "bidderRequestId")
  /\ IsOfKind(LastBid, OBJECT_TYPES.BIDDER_REQUEST)
  /\ isEmpty(localContext.bidContexts)

\* Every element of s occurs in t, in the same relative order
IsSubsequence(s, t) ==
  LET RECURSIVE Match(_, _)
      Match(i, j) ==
        IF i > Len(s) THEN TRUE
        ELSE IF j > Len(t) THEN FALSE
        ELSE IF s[i] = t[j] THEN Match(i + 1, j + 1)
        ELSE Match(i, j + 1)
  IN Match(1, 1)

\* C40: the event log of every bid context contains every event of the common
\* log, in the same relative order.
C40_ContextsHoldCommonLog ==
  \A i \in DOMAIN localContext.bidContexts :
    IsSubsequence(localContext.commonBidContextEvents,
                  localContext.bidContexts[i].events)

\* C40 witness: auctionInit, the bid response of o1, an auction timeout and
\* the bid response of o2: the first context was created before the timeout
\* and the second after it, and both logs hold auctionInit and the timeout
C40_Witness ==
  /\ Len(history) = 4
  /\ history[1].eventType = AUCTION_INIT
  /\ history[2].eventType = BID_RESPONSE
  /\ history[3].eventType = AUCTION_TIMEOUT
  /\ history[4].eventType = BID_RESPONSE
  /\ Len(localContext.bidContexts) = 2
  /\ Len(localContext.commonBidContextEvents) = 2
  /\ \A i \in 1..2 :
       /\ Len(localContext.bidContexts[i].events) = 3
       /\ IsSubsequence(localContext.commonBidContextEvents,
                        localContext.bidContexts[i].events)
  /\ localContext.bidContexts[1].events[2].eventType = BID_RESPONSE
  /\ localContext.bidContexts[2].events[3].eventType = BID_RESPONSE
====
